---- MODULE Spec2Model ----
(***************************************************************************)
(* Model of the general resource bucket of ln-resource-mgr                 *)
(* (src/ln-resource-mgr/src/incoming_channel.rs): pseudorandom slot        *)
(* assignment per candidate channel, and the global / per-candidate slot   *)
(* accounting of add_htlc, remove_htlc and remove_channel; and of the       *)
(* forwarding decision taken on an AllocationCheck snapshot                 *)
(* (src/ln-resource-mgr/src/lib.rs).                                        *)
(***************************************************************************)
EXTENDS Integers, Sequences, FiniteSets, TLC

\* ------------------------------------------------------------------ bounds

\* BucketParameters.slot_count of the bucket under test.
SlotCount == 6
\* BucketParameters.liquidity_msat of the bucket under test.
LiquidityMsat == 13

\* ------------------------------------------------------- program constants

\* const ASSIGNED_SLOTS: usize = 5
ASSIGNED_SLOTS == 5

\* ------------------------------------------------------------------ inputs

\* The scid the bucket is created with (GeneralBucket::new(scid, params)).
OwnScid == 1
\* The candidate channels of the bucket.
Candidates == {2, 3}
\* The candidate_scid values the callers pass: the candidates and the bucket's own.
Scids == Candidates \cup {OwnScid}
\* The amount_msat values the callers pass.
Amounts == {0, 5, 10, 11}
\* The amounts of the specification with every operation.
SlotAmounts == {5, 10}

\* A salt stands for the 32 random bytes drawn by rng.fill(&mut salt): it fixes
\* the sequence of hash values of the attempts 0..9.  step = 0 gives one value
\* for every attempt; rep = 2 gives every value twice in a row.
Salts == [base : {0, 1}, step : {0, 1}, rep : {1, 2}]
\* The salts with base 0.
Salts0 == [base : {0}, step : {0, 1}, rep : {1, 2}]
\* Placeholder for calls that draw no salt (Entry::Occupied, self-assignment).
NoSalt == [base |-> 0, step |-> 0, rep |-> 1]

Results == {"None", "Ok", "OkTrue", "OkFalse", "ErrUnrecoverable",
            "ErrChannelNotFound", "ErrBucketTooEmpty", "Panic"}

VARIABLES
    params,           \* GeneralBucket.params : BucketParameters
    scid,             \* GeneralBucket.scid
    htlc_slots,       \* GeneralBucket.htlc_slots : Vec<bool>, indexed from 0
    slot_size_msat,   \* GeneralBucket.slot_size_msat
    candidate_slots,  \* GeneralBucket.candidate_slots : scid -> (slot -> bool)
    last,             \* the last call on the bucket and what it returned
    in_flight,        \* the caller's record of admitted, unresolved HTLCs
    check,            \* an AllocationCheck snapshot
    outcome,          \* the last call on the snapshot and what it returned
    htlcs,            \* the in-flight HTLC records of the manager
    channels,         \* the outgoing channels of the manager, by scid
    reply,            \* the last call on the manager and what it returned
    lock,             \* the holder of the mutex, or "free"
    pc,               \* the position of each task
    local,            \* the local variables of each task
    clock,            \* the simulated time
    average,          \* the DecayingAverage the tasks share
    requests,         \* the HTLCs the simulator holds between intercept and resolution
    monitor,          \* the HTLCs the reputation interceptor forwarded and has not seen resolved
    handled,          \* the last call on the AttackInterceptor, who got it and the result
    jamming_payments, \* SlowJam.jamming_payments : HashSet<PaymentHash>
    shutdown,         \* whether the shutdown trigger was pulled
    attack_pc         \* the position of SlowJam::run_custom_actions

vars == <<params, scid, htlc_slots, slot_size_msat, candidate_slots, last, in_flight,
          check, outcome, htlcs, channels, reply, lock, pc, local, clock, average,
          requests, monitor, handled, jamming_payments, shutdown, attack_pc>>

\* The variables of the AttackInterceptor, of the attack and of the calls on them.
interceptor_vars == <<requests, monitor, handled, jamming_payments, shutdown, attack_pc>>

\* The variables of the snapshot and of the calls on it.
alloc_vars == <<check, outcome>>

\* The variables of the manager and of the calls on it.
manager_vars == <<htlcs, channels, reply, lock, pc, local, clock, average>>

\* The variables of the tasks that call concurrently.
task_vars == <<lock, pc, local, clock, average>>

\* ----------------------------------------------------------------- helpers

Max(a, b) == IF a >= b THEN a ELSE b

\* u64::div_ceil
DivCeil(a, b) == (a + b - 1) \div b

\* What into_iter().take(n) can yield over a HashMap (or a Vec collected from its
\* keys): the iteration order is arbitrary, so any n of the elements.
Take(S, n) == {T \in SUBSET S : Cardinality(T) = n}

\* The order in which a loop visits the slots it was given.  Each iteration reads
\* and writes the entries of its own index only, so the model visits them in
\* ascending order.
RECURSIVE Visit(_)
Visit(T) ==
    IF T = {} THEN <<>>
    ELSE LET x == CHOOSE y \in T : \A z \in T : y <= z IN <<x>> \o Visit(T \ {x})

\* The slots a slot -> bool map holds as occupied.
Occupied(m) == {i \in DOMAIN m : m[i]}

\* -------------------------------------------------------- GeneralBucket::new

\* GeneralBucket::new: the fields of a fresh bucket.
new(own, p) ==
    [params          |-> p,
     scid            |-> own,
     htlc_slots      |-> [i \in 0..(p.slot_count - 1) |-> FALSE],
     slot_size_msat  |-> p.liquidity_msat \div p.slot_count,
     candidate_slots |-> << >>]

\* GeneralBucket::new without the check of slot_size_msat.
GeneralBucket_new_unchecked(own, p) ==
    IF p.slot_count = 0 THEN [res |-> <<"Panic">>, bucket |-> << >>]
    ELSE [res |-> <<"Ok">>, bucket |-> new(own, p)]

\* GeneralBucket::new(scid, params): Err(ErrUnrecoverable) for a zero
\* slot_size_msat, else Ok(bucket); the division panics for slot_count = 0.
GeneralBucket_new(own, p) ==
    IF p.slot_count = 0 THEN [res |-> <<"Panic">>, bucket |-> << >>]
    ELSE IF p.liquidity_msat \div p.slot_count = 0
    THEN [res |-> <<"ErrUnrecoverable">>, bucket |-> << >>]
    ELSE [res |-> <<"Ok">>, bucket |-> new(own, p)]

\* ------------------------------------------------------ get_candidate_slots

\* Stand-in for u64::from_be_bytes(Sha256d(salt || scid || candidate || attempt)[0..8]).
hash_num(salt, own, cand, attempt) ==
    salt.base + own + cand + salt.step * (attempt \div salt.rep)

\* The for loop of get_candidate_slots: attempts attempt..max_attempts-1 with
\* the slots found so far in result.
RECURSIVE assign_loop(_, _, _, _, _, _)
assign_loop(salt, own, cand, len, attempt, result) ==
    IF attempt >= ASSIGNED_SLOTS * 2 \/ Cardinality(result) = ASSIGNED_SLOTS
    THEN result
    ELSE assign_loop(salt, own, cand, len, attempt + 1,
                     result \cup {hash_num(salt, own, cand, attempt) % len})

\* get_candidate_slots that takes the Entry::Vacant branch on every call: the
\* slots are derived again, from the salt of this call.
get_candidate_slots_fn_redrawn(cs, hs, own, cand, salt) ==
    IF cand = own
    THEN [res |-> "ErrUnrecoverable", slots |-> {}, cs |-> cs]
    ELSE LET result == assign_loop(IF cand \in DOMAIN cs
                                   THEN [base |-> 1, step |-> 1, rep |-> 1] ELSE salt,
                                   own, cand, Cardinality(DOMAIN hs), 0, {})
         IN  IF Cardinality(result) < ASSIGNED_SLOTS
             THEN [res |-> "ErrUnrecoverable", slots |-> {}, cs |-> cs]
             ELSE [res |-> "Ok", slots |-> result,
                   cs |-> [c \in DOMAIN cs \cup {cand} |->
                              IF c = cand THEN [i \in result |-> FALSE] ELSE cs[c]]]

\* get_candidate_slots without the check candidate_scid == self.scid.
get_candidate_slots_fn_self(cs, hs, own, cand, salt) ==
    IF cand \in DOMAIN cs
    THEN [res |-> "Ok", slots |-> DOMAIN cs[cand], cs |-> cs]
    ELSE LET result == assign_loop(IF cand = own
                                   THEN [base |-> 0, step |-> 1, rep |-> 1] ELSE salt,
                                   own, cand, Cardinality(DOMAIN hs), 0, {})
         IN  IF Cardinality(result) < ASSIGNED_SLOTS
             THEN [res |-> "ErrUnrecoverable", slots |-> {}, cs |-> cs]
             ELSE [res |-> "Ok", slots |-> result,
                   cs |-> (cand :> [i \in result |-> FALSE]) @@ cs]

\* get_candidate_slots that inserts the slots it found before it checks their
\* number.
get_candidate_slots_fn_partial(cs, hs, own, cand, salt) ==
    IF cand = own
    THEN [res |-> "ErrUnrecoverable", slots |-> {}, cs |-> cs]
    ELSE IF cand \in DOMAIN cs
    THEN [res |-> "Ok", slots |-> DOMAIN cs[cand], cs |-> cs]
    ELSE LET result == assign_loop(salt, own, cand, Cardinality(DOMAIN hs), 0, {})
         IN  IF Cardinality(result) < ASSIGNED_SLOTS
             THEN [res |-> "ErrUnrecoverable", slots |-> {},
                   cs |-> (cand :> [i \in result |-> FALSE]) @@ cs]
             ELSE [res |-> "Ok", slots |-> result,
                   cs |-> (cand :> [i \in result |-> FALSE]) @@ cs]

\* get_candidate_slots: [res, slots (the returned indices), cs (candidate_slots after)]
get_candidate_slots_fn(cs, hs, own, cand, salt) ==
    IF cand = own
    THEN [res |-> "ErrUnrecoverable", slots |-> {}, cs |-> cs]
    ELSE IF cand \in DOMAIN cs
    THEN [res |-> "Ok", slots |-> DOMAIN cs[cand], cs |-> cs]
    ELSE LET result == assign_loop(salt, own, cand, Cardinality(DOMAIN hs), 0, {})
         IN  IF Cardinality(result) < ASSIGNED_SLOTS
             THEN [res |-> "ErrUnrecoverable", slots |-> {}, cs |-> cs]
             ELSE [res |-> "Ok", slots |-> result,
                   cs |-> (cand :> [i \in result |-> FALSE]) @@ cs]

\* The salts a call for cand may draw out of salts: one is drawn only in the
\* Entry::Vacant branch.
SaltsFor(cand, salts) ==
    IF cand # scid /\ cand \notin DOMAIN candidate_slots THEN salts ELSE {NoSalt}

\* ------------------------------------------------------- required_slot_count

\* required_slot_count with a rounded-down division.
required_slot_count_floor(size, amount_msat) == Max(1, amount_msat \div size)

\* required_slot_count with u64::min for u64::max.
required_slot_count_min(size, amount_msat) ==
    IF DivCeil(amount_msat, size) <= 1 THEN DivCeil(amount_msat, size) ELSE 1

required_slot_count(size, amount_msat) == Max(1, DivCeil(amount_msat, size))

\* ---------------------------------------------------------- get_usable_slots

\* The part of get_usable_slots after the candidate's slots are known (got).
usable_of(got, hs, required) ==
    LET available == {index \in got.slots : ~hs[index]}
    IN  IF got.res # "Ok"
        THEN [res |-> got.res, available |-> {}, required |-> required, cs |-> got.cs]
        ELSE IF Cardinality(available) < required
        THEN [res |-> "None", available |-> available, required |-> required, cs |-> got.cs]
        ELSE [res |-> "Some", available |-> available, required |-> required, cs |-> got.cs]

\* get_usable_slots: res is "ErrUnrecoverable", "None" or "Some"; with "Some" the
\* returned vector is any element of Take(available, required).
get_usable_slots(cs, hs, size, own, cand, amount_msat, salt) ==
    LET required == required_slot_count(size, amount_msat)
        got      == get_candidate_slots_fn(cs, hs, own, cand, salt)
    IN  usable_of(got, hs, required)

\* ------------------------------------------------------------------ add_htlc

\* The reservation loop of add_htlc over the slots order[k..]: the first failing
\* assertion or lookup ends it, with the writes made so far kept.
RECURSIVE reserve_slots(_, _, _, _)
reserve_slots(order, k, hs, chan) ==
    IF k > Len(order) THEN [res |-> "OkTrue", hs |-> hs, chan |-> chan]
    ELSE LET index == order[k] IN
         IF hs[index] THEN [res |-> "Panic", hs |-> hs, chan |-> chan]
         ELSE LET hs1 == [hs EXCEPT ![index] = TRUE] IN
              IF index \notin DOMAIN chan
              THEN [res |-> "ErrBucketTooEmpty", hs |-> hs1, chan |-> chan]
              ELSE IF chan[index]
              THEN [res |-> "Panic", hs |-> hs1, chan |-> chan]
              ELSE reserve_slots(order, k + 1, hs1, [chan EXCEPT ![index] = TRUE])

\* ---------------------------------------------------------------- remove_htlc

\* free_slots that stops after the first slot it frees.
free_slots_one(order, k, hs, chan) ==
    IF k > Len(order) THEN [res |-> "Ok", hs |-> hs, chan |-> chan]
    ELSE LET i == order[k] IN
         IF ~hs[i] \/ i \notin DOMAIN chan \/ ~chan[i]
         THEN [res |-> "Panic", hs |-> hs, chan |-> chan]
         ELSE [res |-> "Ok", hs |-> [hs EXCEPT ![i] = FALSE],
               chan |-> [chan EXCEPT ![i] = FALSE]]

\* free_slots with the write self.htlc_slots[i] = false left out.
RECURSIVE free_slots_keeps_global(_, _, _, _)
free_slots_keeps_global(order, k, hs, chan) ==
    IF k > Len(order) THEN [res |-> "Ok", hs |-> hs, chan |-> chan]
    ELSE LET i == order[k] IN
         IF ~hs[i] THEN [res |-> "Panic", hs |-> hs, chan |-> chan]
         ELSE IF i \notin DOMAIN chan
              THEN [res |-> "ErrBucketTooEmpty", hs |-> hs, chan |-> chan]
              ELSE IF ~chan[i]
              THEN [res |-> "Panic", hs |-> hs, chan |-> chan]
              ELSE free_slots_keeps_global(order, k + 1, hs, [chan EXCEPT ![i] = FALSE])

\* The freeing loop of remove_htlc over the slots order[k..].
RECURSIVE free_slots(_, _, _, _)
free_slots(order, k, hs, chan) ==
    IF k > Len(order) THEN [res |-> "Ok", hs |-> hs, chan |-> chan]
    ELSE LET i == order[k] IN
         IF ~hs[i] THEN [res |-> "Panic", hs |-> hs, chan |-> chan]
         ELSE LET hs1 == [hs EXCEPT ![i] = FALSE] IN
              IF i \notin DOMAIN chan
              THEN [res |-> "ErrBucketTooEmpty", hs |-> hs1, chan |-> chan]
              ELSE IF ~chan[i]
              THEN [res |-> "Panic", hs |-> hs1, chan |-> chan]
              ELSE free_slots(order, k + 1, hs1, [chan EXCEPT ![i] = FALSE])

\* ------------------------------------------------------------ AllocationCheck

\* const MINIMUM_CONGESTION_SLOT_LIQUDITY: u64 = 15_000_000
MINIMUM_CONGESTION_SLOT_LIQUDITY == 15000000

\* enum EndorsementSignal
EndorsementSignal == {"Unendorsed", "Endorsed"}
\* enum Reputation: the reputation scheme of a check
Reputation == {"Incoming", "Outgoing", "Bidirectional"}
\* enum ResourceBucketType
ResourceBucketType == {"Protected", "Congestion", "General"}
\* enum FailureReason
FailureReason == {"NoResources", "NoReputation", "UpgradableSignalModified"}

\* i64 and u64 are modelled at a width of IntBits bits.
IntBits == 5
I64_MAX == 2 ^ (IntBits - 1) - 1
I64_MIN == 0 - 2 ^ (IntBits - 1)
U64_MAX == 2 ^ IntBits - 1

\* i64::saturating_sub
saturating_sub(a, b) ==
    IF a - b < I64_MIN THEN I64_MIN
    ELSE IF a - b > I64_MAX THEN I64_MAX
    ELSE a - b

\* i64::try_from(u).unwrap_or(i64::MAX) for a u64 u
try_from_or_max(u) == IF u > I64_MAX THEN I64_MAX ELSE u

\* struct ReputationValues
ReputationValues(reputation, revenue_threshold, in_flight_total_risk, htlc_risk) ==
    [reputation |-> reputation, revenue_threshold |-> revenue_threshold,
     in_flight_total_risk |-> in_flight_total_risk, htlc_risk |-> htlc_risk]

\* struct BucketResources
BucketResources(slots_used, slots_available, liquidity_used_msat, liquidity_available_msat) ==
    [slots_used |-> slots_used, slots_available |-> slots_available,
     liquidity_used_msat |-> liquidity_used_msat,
     liquidity_available_msat |-> liquidity_available_msat]

\* struct AllocationCheck (with ReputationCheck and ResourceCheck)
AllocationCheck(incoming, outgoing, eligible, general, congestion) ==
    [reputation_check |-> [incoming_reputation |-> incoming,
                           outgoing_reputation |-> outgoing],
     congestion_eligible |-> eligible,
     resource_check |-> [general_bucket |-> general, congestion_bucket |-> congestion]]

\* tests::test_congestion_check: a snapshot that is eligible for congestion
\* resources.
test_congestion_check ==
    AllocationCheck(ReputationValues(0, 0, 0, 0), ReputationValues(0, 0, 0, 0), TRUE,
                    BucketResources(10, 10, 0, 200000),
                    BucketResources(0, 10, 0, MINIMUM_CONGESTION_SLOT_LIQUDITY * 20))

\* ReputationValues::sufficient_reputation with >= for >.
sufficient_reputation_or_equal(v) ==
    saturating_sub(saturating_sub(v.reputation, try_from_or_max(v.in_flight_total_risk)),
                   try_from_or_max(v.htlc_risk)) >= v.revenue_threshold

\* ReputationValues::sufficient_reputation
sufficient_reputation(v) ==
    saturating_sub(saturating_sub(v.reputation, try_from_or_max(v.in_flight_total_risk)),
                   try_from_or_max(v.htlc_risk)) > v.revenue_threshold

\* Reputation::sufficient_reputation where Bidirectional asks for either side.
Reputation_sufficient_reputation_either(scheme, c) ==
    CASE scheme = "Incoming" ->
             sufficient_reputation(c.reputation_check.incoming_reputation)
      [] scheme = "Outgoing" ->
             sufficient_reputation(c.reputation_check.outgoing_reputation)
      [] scheme = "Bidirectional" ->
             \/ sufficient_reputation(c.reputation_check.incoming_reputation)
             \/ sufficient_reputation(c.reputation_check.outgoing_reputation)

\* Reputation::sufficient_reputation(&self, check): the sides of the snapshot the
\* scheme asks to have sufficient reputation.
Reputation_sufficient_reputation(scheme, c) ==
    CASE scheme = "Incoming" ->
             sufficient_reputation(c.reputation_check.incoming_reputation)
      [] scheme = "Outgoing" ->
             sufficient_reputation(c.reputation_check.outgoing_reputation)
      [] scheme = "Bidirectional" ->
             /\ sufficient_reputation(c.reputation_check.incoming_reputation)
             /\ sufficient_reputation(c.reputation_check.outgoing_reputation)

\* BucketResources::resources_available.  The amounts and the liquidity of a
\* snapshot are below the supply cap, so the u64 sum does not overflow.
resources_available(b, htlc_amt_msat) ==
    IF b.liquidity_used_msat + htlc_amt_msat > b.liquidity_available_msat THEN FALSE
    ELSE IF b.slots_used + 1 > b.slots_available THEN FALSE
    ELSE TRUE

\* congestion_resources_available without the check of the general bucket.
congestion_resources_available_any_general(c, htlc_amt_msat) ==
    LET congestion_bucket == c.resource_check.congestion_bucket IN
    IF congestion_bucket.slots_available = 0
       \/ congestion_bucket.liquidity_available_msat = 0
    THEN FALSE
    ELSE IF \/ ~c.congestion_eligible
            \/ ~resources_available(congestion_bucket, htlc_amt_msat)
    THEN FALSE
    ELSE htlc_amt_msat <= Max(congestion_bucket.liquidity_available_msat
                                  \div congestion_bucket.slots_available,
                              MINIMUM_CONGESTION_SLOT_LIQUDITY)

\* congestion_resources_available with < for <= in the comparison with the limit.
congestion_resources_available_below_limit(c, htlc_amt_msat) ==
    LET congestion_bucket == c.resource_check.congestion_bucket
        general_bucket    == c.resource_check.general_bucket
    IN
    IF congestion_bucket.slots_available = 0
       \/ congestion_bucket.liquidity_available_msat = 0
    THEN FALSE
    ELSE IF \/ resources_available(general_bucket, htlc_amt_msat)
            \/ ~c.congestion_eligible
            \/ ~resources_available(congestion_bucket, htlc_amt_msat)
    THEN FALSE
    ELSE htlc_amt_msat < Max(congestion_bucket.liquidity_available_msat
                                 \div congestion_bucket.slots_available,
                             MINIMUM_CONGESTION_SLOT_LIQUDITY)

\* AllocationCheck::congestion_resources_available
congestion_resources_available(c, htlc_amt_msat) ==
    LET congestion_bucket == c.resource_check.congestion_bucket
        general_bucket    == c.resource_check.general_bucket
    IN
    IF congestion_bucket.slots_available = 0
       \/ congestion_bucket.liquidity_available_msat = 0
    THEN FALSE
    ELSE IF \/ resources_available(general_bucket, htlc_amt_msat)
            \/ ~c.congestion_eligible
            \/ ~resources_available(congestion_bucket, htlc_amt_msat)
    THEN FALSE
    ELSE LET liquidity_limit == Max(congestion_bucket.liquidity_available_msat
                                        \div congestion_bucket.slots_available,
                                    MINIMUM_CONGESTION_SLOT_LIQUDITY)
         IN  htlc_amt_msat <= liquidity_limit

\* inner_forwarding_outcome without the match on the scheme: an endorsed htlc
\* without reputation or congestion resources fails with NoReputation.
inner_forwarding_outcome_no_scheme(c, htlc_amt_msat, incoming_endorsed, incoming_upgradable, reputation_check) ==
    LET general_bucket == c.resource_check.general_bucket IN
    IF ~incoming_upgradable /\ incoming_endorsed = "Endorsed"
    THEN <<"Err", "UpgradableSignalModified">>
    ELSE IF incoming_endorsed = "Endorsed"
    THEN IF Reputation_sufficient_reputation(reputation_check, c)
         THEN <<"Ok", "Protected">>
         ELSE IF congestion_resources_available(c, htlc_amt_msat)
         THEN <<"Ok", "Congestion">>
         ELSE <<"Err", "NoReputation">>
    ELSE IF Reputation_sufficient_reputation(reputation_check, c) /\ incoming_upgradable
         THEN <<"Ok", "Protected">>
         ELSE IF resources_available(general_bucket, htlc_amt_msat)
         THEN <<"Ok", "General">>
         ELSE <<"Err", "NoResources">>

\* inner_forwarding_outcome that checks the upgradable signal of an endorsed htlc
\* only when its reputation is insufficient.
inner_forwarding_outcome_signal_late(c, htlc_amt_msat, incoming_endorsed, incoming_upgradable, reputation_check) ==
    LET general_bucket == c.resource_check.general_bucket IN
    IF /\ ~incoming_upgradable /\ incoming_endorsed = "Endorsed"
       /\ ~Reputation_sufficient_reputation(reputation_check, c)
    THEN <<"Err", "UpgradableSignalModified">>
    ELSE IF incoming_endorsed = "Endorsed"
    THEN IF Reputation_sufficient_reputation(reputation_check, c)
         THEN <<"Ok", "Protected">>
         ELSE IF congestion_resources_available(c, htlc_amt_msat)
         THEN <<"Ok", "Congestion">>
         ELSE IF reputation_check = "Incoming"
         THEN IF resources_available(general_bucket, htlc_amt_msat)
              THEN <<"Ok", "General">>
              ELSE <<"Err", "NoResources">>
         ELSE <<"Err", "NoReputation">>
    ELSE IF Reputation_sufficient_reputation(reputation_check, c) /\ incoming_upgradable
         THEN <<"Ok", "Protected">>
         ELSE IF resources_available(general_bucket, htlc_amt_msat)
         THEN <<"Ok", "General">>
         ELSE <<"Err", "NoResources">>

\* inner_forwarding_outcome that falls back to general resources under every
\* scheme.
inner_forwarding_outcome_general_for_all(c, htlc_amt_msat, incoming_endorsed, incoming_upgradable, reputation_check) ==
    LET general_bucket == c.resource_check.general_bucket IN
    IF ~incoming_upgradable /\ incoming_endorsed = "Endorsed"
    THEN <<"Err", "UpgradableSignalModified">>
    ELSE IF incoming_endorsed = "Endorsed"
    THEN IF Reputation_sufficient_reputation(reputation_check, c)
         THEN <<"Ok", "Protected">>
         ELSE IF congestion_resources_available(c, htlc_amt_msat)
         THEN <<"Ok", "Congestion">>
         ELSE IF resources_available(general_bucket, htlc_amt_msat)
         THEN <<"Ok", "General">>
         ELSE <<"Err", "NoResources">>
    ELSE IF Reputation_sufficient_reputation(reputation_check, c) /\ incoming_upgradable
         THEN <<"Ok", "Protected">>
         ELSE IF resources_available(general_bucket, htlc_amt_msat)
         THEN <<"Ok", "General">>
         ELSE <<"Err", "NoResources">>

\* inner_forwarding_outcome that upgrades an unendorsed htlc whatever its
\* upgradable signal.
inner_forwarding_outcome_upgrade_any(c, htlc_amt_msat, incoming_endorsed, incoming_upgradable, reputation_check) ==
    LET general_bucket == c.resource_check.general_bucket IN
    IF ~incoming_upgradable /\ incoming_endorsed = "Endorsed"
    THEN <<"Err", "UpgradableSignalModified">>
    ELSE IF incoming_endorsed = "Endorsed"
    THEN IF Reputation_sufficient_reputation(reputation_check, c)
         THEN <<"Ok", "Protected">>
         ELSE IF congestion_resources_available(c, htlc_amt_msat)
         THEN <<"Ok", "Congestion">>
         ELSE IF reputation_check = "Incoming"
         THEN IF resources_available(general_bucket, htlc_amt_msat)
              THEN <<"Ok", "General">>
              ELSE <<"Err", "NoResources">>
         ELSE <<"Err", "NoReputation">>
    ELSE IF Reputation_sufficient_reputation(reputation_check, c)
         THEN <<"Ok", "Protected">>
         ELSE IF resources_available(general_bucket, htlc_amt_msat)
         THEN <<"Ok", "General">>
         ELSE <<"Err", "NoResources">>

\* AllocationCheck::inner_forwarding_outcome: <<"Ok", bucket>> or <<"Err", reason>>
inner_forwarding_outcome(c, htlc_amt_msat, incoming_endorsed, incoming_upgradable, reputation_check) ==
    LET general_bucket == c.resource_check.general_bucket IN
    IF ~incoming_upgradable /\ incoming_endorsed = "Endorsed"
    THEN <<"Err", "UpgradableSignalModified">>
    ELSE IF incoming_endorsed = "Endorsed"
    THEN IF Reputation_sufficient_reputation(reputation_check, c)
         THEN <<"Ok", "Protected">>
         ELSE IF congestion_resources_available(c, htlc_amt_msat)
         THEN <<"Ok", "Congestion">>
         ELSE IF reputation_check = "Incoming"
         THEN IF resources_available(general_bucket, htlc_amt_msat)
              THEN <<"Ok", "General">>
              ELSE <<"Err", "NoResources">>
         ELSE <<"Err", "NoReputation">>
    ELSE IF Reputation_sufficient_reputation(reputation_check, c) /\ incoming_upgradable
         THEN <<"Ok", "Protected">>
         ELSE IF resources_available(general_bucket, htlc_amt_msat)
         THEN <<"Ok", "General">>
         ELSE <<"Err", "NoResources">>

\* forwarding_outcome that keeps the endorsement of an htlc in the congestion
\* bucket.
forwarding_outcome_congestion_endorsed(c, htlc_amt_msat, incoming_endorsed, incoming_upgradable, reputation_check) ==
    LET inner == inner_forwarding_outcome(c, htlc_amt_msat, incoming_endorsed,
                                          incoming_upgradable, reputation_check)
    IN  IF inner[1] = "Ok"
        THEN CASE inner[2] = "General"    -> <<"Forward", "Unendorsed">>
               [] inner[2] = "Congestion" -> <<"Forward", "Endorsed">>
               [] inner[2] = "Protected"  -> <<"Forward", "Endorsed">>
        ELSE <<"Fail", inner[2]>>

\* AllocationCheck::forwarding_outcome: <<"Forward", signal>> or <<"Fail", reason>>
forwarding_outcome(c, htlc_amt_msat, incoming_endorsed, incoming_upgradable, reputation_check) ==
    LET inner == inner_forwarding_outcome(c, htlc_amt_msat, incoming_endorsed,
                                          incoming_upgradable, reputation_check)
    IN  IF inner[1] = "Ok"
        THEN CASE inner[2] = "General"    -> <<"Forward", "Unendorsed">>
               [] inner[2] = "Congestion" -> <<"Forward", "Unendorsed">>
               [] inner[2] = "Protected"  -> <<"Forward", "Endorsed">>
        ELSE <<"Fail", inner[2]>>

\* The value of outcome before any call on the snapshot.
NoCall == [op |-> "none", amt |-> 0, endorsed |-> "Unendorsed", upgradable |-> FALSE,
           scheme |-> "Incoming", res |-> <<"none", "none">>]

\* ------------------------------------------------------------ ProposedForward

\* const SUPPLY_CAP_MSAT: u64 = 21000000 * 100000000 * 1000, without the factor
\* 100000000 * 1000: the amounts of the model stay below 2^31.
SUPPLY_CAP_MSAT == 21000000

\* struct HtlcRef
HtlcRef(channel_id, htlc_index) == [channel_id |-> channel_id, htlc_index |-> htlc_index]

\* struct ProposedForward (added_at is the instant of the call that proposes it)
ProposedForward(incoming_ref, outgoing_channel_id, amount_in_msat, amount_out_msat, expiry_in_height, expiry_out_height, incoming_endorsed, upgradable_endorsement) ==
    [incoming_ref |-> incoming_ref, outgoing_channel_id |-> outgoing_channel_id,
     amount_in_msat |-> amount_in_msat, amount_out_msat |-> amount_out_msat,
     expiry_in_height |-> expiry_in_height, expiry_out_height |-> expiry_out_height,
     incoming_endorsed |-> incoming_endorsed,
     upgradable_endorsement |-> upgradable_endorsement]

\* validate_msat: the amount as an i64, or ErrAmountExceedsSupply(amount).  An
\* amount at or below the cap is below i64::MAX, so try_from succeeds.
validate_msat(amount_msat) ==
    IF amount_msat > SUPPLY_CAP_MSAT
    THEN <<"ErrAmountExceedsSupply", amount_msat>>
    ELSE <<"Ok", amount_msat>>

\* ProposedForward::validate without the check of the fee.
validate_no_fee_check(p) ==
    IF validate_msat(p.amount_out_msat)[1] # "Ok" THEN validate_msat(p.amount_out_msat)
    ELSE IF validate_msat(p.amount_in_msat)[1] # "Ok" THEN validate_msat(p.amount_in_msat)
    ELSE IF p.expiry_in_height < p.expiry_out_height
    THEN <<"ErrNegativeCltvDelta", p.expiry_in_height, p.expiry_out_height>>
    ELSE <<"Ok">>

\* ProposedForward::validate: <<"Ok">> or the error with its fields
validate(p) ==
    IF validate_msat(p.amount_out_msat)[1] # "Ok" THEN validate_msat(p.amount_out_msat)
    ELSE IF validate_msat(p.amount_in_msat)[1] # "Ok" THEN validate_msat(p.amount_in_msat)
    ELSE IF p.amount_out_msat > p.amount_in_msat
    THEN <<"ErrNegativeFee", p.amount_in_msat, p.amount_out_msat>>
    ELSE IF p.expiry_in_height < p.expiry_out_height
    THEN <<"ErrNegativeCltvDelta", p.expiry_in_height, p.expiry_out_height>>
    ELSE <<"Ok">>

\* ProposedForward::fee_msat: the u64 subtraction.  When amount_out_msat is the
\* larger it overflows: a panic with overflow checks, the wrapped value
\* 2^64 + (amount_in_msat - amount_out_msat) without.
fee_msat(p) ==
    IF p.amount_in_msat >= p.amount_out_msat
    THEN {<<"Ok", p.amount_in_msat - p.amount_out_msat>>}
    ELSE {<<"Panic">>, <<"Wrapped", p.amount_in_msat - p.amount_out_msat>>}

\* ------------------------------------------------------------ DecayingAverage

\* The instants of the calls, in units of the revenue window.
MaxInstant == 2
Instants == 0..MaxInstant

\* ForwardManagerParams: the reputation window is reputation_multiplier revenue
\* windows; opportunity_cost divides by resolution_period_blocks.
REVENUE_WINDOW == 1
REPUTATION_MULTIPLIER == 2
RESOLUTION_PERIOD_BLOCKS == 2

\* A value halved n times, towards zero.
RECURSIVE halved(_, _)
halved(v, n) ==
    IF n = 0 THEN v
    ELSE halved(IF v >= 0 THEN v \div 2 ELSE 0 - ((0 - v) \div 2), n - 1)

\* struct DecayingAverage, with the half-life window.
DecayingAverage(value, last_updated, window) ==
    [value |-> value, last_updated |-> last_updated, window |-> window]

\* DecayingAverage::value_at_instant: the average advanced to the instant, which
\* becomes last_updated; ErrUpdateInPast for an instant before last_updated.
\* The decay exp(-elapsed / tau) is taken in whole half-lives.
value_at_instant(avg, instant) ==
    IF instant < avg.last_updated
    THEN [res |-> <<"ErrUpdateInPast", avg.last_updated, instant>>, avg |-> avg]
    ELSE LET value == halved(avg.value, (instant - avg.last_updated) \div avg.window)
         IN  [res |-> <<"Ok", value>>,
              avg |-> [avg EXCEPT !.value = value, !.last_updated = instant]]

\* DecayingAverage::add_value: the average advanced to the instant, plus value.
add_value(avg, value, instant) ==
    LET at == value_at_instant(avg, instant) IN
    IF at.res[1] # "Ok" THEN at
    ELSE [res |-> <<"Ok", at.avg.value + value>>,
          avg |-> [at.avg EXCEPT !.value = at.avg.value + value]]

\* ------------------------------------------------- OutgoingChannel, HtlcManager

\* The reputation scheme the manager is configured with.
REPUTATION_SCHEME == "Outgoing"

\* BucketParameters of the congestion bucket of the incoming channel.
CongestionParams == [slot_count |-> 1, liquidity_msat |-> 20]

\* An outgoing channel added with the outgoing_reputation of a ChannelSnapshot.
OutgoingChannel(outgoing_reputation) ==
    [outgoing_reputation |->
         DecayingAverage(outgoing_reputation, 0, REPUTATION_MULTIPLIER * REVENUE_WINDOW),
     revenue |-> DecayingAverage(0, 0, REVENUE_WINDOW),
     in_flight_total_risk |-> 0]

\* A channel added without a snapshot.
NewChannel == OutgoingChannel(0)

\* The channel that is added with a ChannelSnapshot, and the outgoing_reputation
\* of the snapshot.
SnapshotChannel == 2
SnapshotReputation == 5

\* opportunity_cost(fee, blocks) = fee * blocks / resolution_period_blocks
opportunity_cost(fee, blocks) == (fee * blocks) \div RESOLUTION_PERIOD_BLOCKS

\* The htlc_risk of a validated forward.
htlc_risk_of(p) ==
    LET fees == CHOOSE f \in fee_msat(p) : TRUE
    IN  opportunity_cost(fees[2], p.expiry_in_height - p.expiry_out_height)

\* The key of an in-flight record: (outgoing scid, incoming HtlcRef).
KeyOf(r) == <<r.outgoing_channel_id, r.incoming_ref>>

\* The key of the forward.
ForwardKey(p) == <<p.outgoing_channel_id, p.incoming_ref>>

\* The positions of the in-flight records with the key.
Live(records, key) == {i \in DOMAIN records : KeyOf(records[i]) = key}

\* The in-flight record of a forward admitted to the bucket.
InFlightHtlc(p, bucket) ==
    [outgoing_channel_id |-> p.outgoing_channel_id, incoming_ref |-> p.incoming_ref,
     amount_msat |-> p.amount_out_msat,
     fee_msat |-> p.amount_in_msat - p.amount_out_msat,
     cltv_delta |-> p.expiry_in_height - p.expiry_out_height,
     htlc_risk |-> htlc_risk_of(p), bucket |-> bucket]

\* The sequence without its i-th element.
Without(records, i) ==
    [j \in 1..(Len(records) - 1) |-> IF j < i THEN records[j] ELSE records[j + 1]]

\* The sum of f over the records at the positions.
RECURSIVE SumOver(_, _, _)
SumOver(records, positions, field) ==
    IF positions = {} THEN 0
    ELSE LET i == CHOOSE j \in positions : TRUE
         IN  records[i][field] + SumOver(records, positions \ {i}, field)

\* The duplicate check of add_htlc left out.
is_in_flight_never(records, key) == FALSE

\* Whether a forward with the key is in flight.
is_in_flight(records, key) == Live(records, key) # {}

\* The records after every add_htlc that passed validation, admitted or not.
records_after_add_always(records, p, decision) ==
    Append(records, InFlightHtlc(p, IF decision[1] = "Ok" THEN decision[2] ELSE "General"))

\* The in-flight records after add_htlc took the decision: the forward is
\* recorded iff it got a bucket.
records_after_add(records, p, decision) ==
    IF decision[1] = "Ok" THEN Append(records, InFlightHtlc(p, decision[2])) ELSE records

\* resolve_htlc that leaves the record in place.
records_after_resolve_kept(records, i) == records

\* The in-flight records after resolve_htlc found the record at position i.
records_after_resolve(records, i) == Without(records, i)

\* The in-flight risk counted for every bucket.
risk_after_add_any_bucket(risk, r) == risk + r.htlc_risk

\* The in-flight risk of the outgoing channel after the record r was added: the
\* risk of the HTLCs in the protected bucket accumulates.
risk_after_add(risk, r) == IF r.bucket = "Protected" THEN risk + r.htlc_risk ELSE risk

\* The in-flight risk of the outgoing channel after the record r was resolved.
risk_after_resolve(risk, r) == IF r.bucket = "Protected" THEN risk - r.htlc_risk ELSE risk

\* The reputation update that adds the fee for a failed HTLC too.
resolved_channel_fee_always(channel, r, resolution, instant) ==
    [channel EXCEPT
        !.outgoing_reputation =
            add_value(@, r.fee_msat - r.htlc_risk, instant).avg,
        !.revenue = add_value(@, r.fee_msat, instant).avg,
        !.in_flight_total_risk = risk_after_resolve(@, r)]

\* The outgoing channel after its record r was resolved at the instant:
\* Settled adds fee_msat - htlc_risk to outgoing_reputation and fee_msat to
\* revenue; Failed adds -htlc_risk to outgoing_reputation.
resolved_channel(channel, r, resolution, instant) ==
    [channel EXCEPT
        !.outgoing_reputation =
            add_value(@, IF resolution = "Settled" THEN r.fee_msat - r.htlc_risk
                         ELSE 0 - r.htlc_risk, instant).avg,
        !.revenue = IF resolution = "Settled"
                    THEN add_value(@, r.fee_msat, instant).avg ELSE @,
        !.in_flight_total_risk = risk_after_resolve(@, r)]

\* The AllocationCheck assembled for the forward p at the instant, general_room
\* being what may_add_htlc returned: [check, channel (the outgoing channel with
\* its averages advanced to the instant)].
allocation_snapshot(chans, records, hs, p, instant, general_room) ==
    LET out        == chans[p.outgoing_channel_id]
        reputation == value_at_instant(out.outgoing_reputation, instant)
        revenue    == value_at_instant(out.revenue, instant)
        congestion == {i \in DOMAIN records : records[i].bucket = "Congestion"}
    IN  [check |->
             AllocationCheck(
                 ReputationValues(0, revenue.res[2], 0, htlc_risk_of(p)),
                 ReputationValues(reputation.res[2], revenue.res[2],
                                  out.in_flight_total_risk, htlc_risk_of(p)),
                 Occupied(hs) = {},
                 BucketResources(IF general_room THEN 0 ELSE 1, 1, 0, p.amount_out_msat),
                 BucketResources(Cardinality(congestion), CongestionParams.slot_count,
                                 SumOver(records, congestion, "amount_msat"),
                                 CongestionParams.liquidity_msat)),
         channel |-> [out EXCEPT !.outgoing_reputation = reputation.avg,
                                 !.revenue = revenue.avg]]

\* The local variables of a task that has not run: the slots its call writes
\* and its position among them, what its query saw, the instant it sampled and
\* what its query returned.
NoLocal == [order |-> << >>, k |-> 0, seen |-> [hs |-> << >>, cs |-> << >>, records |-> << >>],
            now |-> 0, res |-> <<"none">>]

\* Mutex::lock that does not wait for the holder.
try_lock_unguarded(holder) == TRUE

\* Mutex::lock returns once the mutex is free.
try_lock(holder) == holder = "free"

\* The value of reply before any call on the manager.
NoReply == [op |-> "none", res |-> <<"none">>]

\* No call on the AttackInterceptor yet.
NoHandled == [op |-> "none", by |-> "none", res |-> <<"none">>]

\* -------------------------------------------------------------------- state

\* What a call leaves in last: the operation, its arguments and its result; ret
\* is the vector get_candidate_slots returned (as a set); pre_global and pre_cand
\* are the numbers of occupied slots, of the bucket and of the candidate, when
\* the call was made.
Called(op, cand, amount_msat, res, ret) ==
    [op |-> op, scid |-> cand, amt |-> amount_msat, res |-> res, ret |-> ret,
     pre_global |-> Cardinality(Occupied(htlc_slots)),
     pre_cand   |-> IF cand \in DOMAIN candidate_slots
                    THEN Cardinality(Occupied(candidate_slots[cand])) ELSE 0]

\* struct GeneralBucket, and the shapes of last and in_flight.
TypeOK ==
    /\ params \in [slot_count : Nat, liquidity_msat : Nat]
    /\ scid \in Scids
    /\ htlc_slots \in [0..(SlotCount - 1) -> BOOLEAN]
    /\ slot_size_msat \in Nat
    /\ DOMAIN candidate_slots \subseteq Scids
    /\ \A c \in DOMAIN candidate_slots :
         /\ DOMAIN candidate_slots[c] \subseteq 0..65535
         /\ \A i \in DOMAIN candidate_slots[c] : candidate_slots[c][i] \in BOOLEAN
    /\ last.res \in Results
    /\ last.scid \in Scids /\ last.amt \in Amounts \cup SlotAmounts
    /\ in_flight \in [Scids -> [Amounts -> Nat]]
    /\ check.congestion_eligible \in BOOLEAN
    /\ \A v \in {check.reputation_check.incoming_reputation,
                  check.reputation_check.outgoing_reputation} :
         /\ v.reputation \in I64_MIN..I64_MAX
         /\ v.revenue_threshold \in I64_MIN..I64_MAX
         /\ v.in_flight_total_risk \in 0..U64_MAX
         /\ v.htlc_risk \in 0..U64_MAX
    /\ \A b \in {check.resource_check.general_bucket,
                  check.resource_check.congestion_bucket} :
         /\ b.slots_used \in Nat /\ b.slots_available \in Nat
         /\ b.liquidity_used_msat \in Nat /\ b.liquidity_available_msat \in Nat
    /\ outcome.endorsed \in EndorsementSignal
    /\ outcome.scheme \in Reputation
    /\ outcome.upgradable \in BOOLEAN

\* A panic (a failed assert!) ends the program.
Alive == last.res # "Panic"

\* The state after construction, with the snapshot c, the tasks at the label and
\* a bucket of the parameters p.
InitBucket(c, tasks, label, p) ==
    LET b == new(OwnScid, p)
    IN  /\ params = b.params
        /\ scid = b.scid
        /\ htlc_slots = b.htlc_slots
        /\ slot_size_msat = b.slot_size_msat
        /\ candidate_slots = b.candidate_slots
        /\ last = Called("new", OwnScid, 0, "Ok", {})
        /\ in_flight = [c_ \in Scids |-> [a \in Amounts |-> 0]]
        /\ check = c
        /\ outcome = NoCall
        /\ htlcs = << >>
        /\ channels = [o \in Candidates |->
                           IF o = SnapshotChannel THEN OutgoingChannel(SnapshotReputation)
                           ELSE NewChannel]
        /\ reply = NoReply
        /\ lock = "free"
        /\ pc = [t \in tasks |-> label]
        /\ local = [t \in tasks |-> NoLocal]
        /\ clock = 0
        /\ average = DecayingAverage(0, 0, REVENUE_WINDOW)
        /\ requests = {}
        /\ monitor = {}
        /\ handled = NoHandled
        /\ jamming_payments = {}
        /\ shutdown = FALSE
        /\ attack_pc = "build_reputation"

\* The state after construction of the bucket of SlotCount slots.
InitTasks(c, tasks, label) ==
    InitBucket(c, tasks, label, [slot_count |-> SlotCount, liquidity_msat |-> LiquidityMsat])

\* The state after construction, with the snapshot c and no tasks.
InitWith(c) == InitTasks(c, {}, "none")

Init == InitWith(test_congestion_check)

\* ------------------------------------------------------------------ actions

\* In the actions below, salt is what rng.fill(&mut salt) yields if the call
\* reaches it.

\* GeneralBucket::get_candidate_slots(candidate_scid)
get_candidate_slots(candidate_scid, salt) ==
    /\ Alive
    /\ \E got \in {get_candidate_slots_fn(candidate_slots, htlc_slots, scid,
                                           candidate_scid, salt)} :
             /\ candidate_slots' = got.cs
             /\ last' = Called("get_candidate_slots", candidate_scid, 0, got.res, got.slots)
    /\ UNCHANGED <<params, scid, htlc_slots, slot_size_msat>>

\* may_add_htlc that answers true as soon as one assigned slot is free.
may_add_htlc_any_free(candidate_scid, amount_msat, salt) ==
    /\ Alive
    /\ \E usable \in {get_usable_slots(candidate_slots, htlc_slots, slot_size_msat,
                                        scid, candidate_scid, amount_msat, salt)} :
             /\ candidate_slots' = usable.cs
             /\ last' = Called("may_add_htlc", candidate_scid, amount_msat,
                               CASE usable.res = "ErrUnrecoverable" -> usable.res
                                 [] usable.available # {} -> "OkTrue"
                                 [] OTHER -> "OkFalse",
                               {})
    /\ UNCHANGED <<params, scid, htlc_slots, slot_size_msat>>

\* GeneralBucket::may_add_htlc(candidate_scid, amount_msat)
may_add_htlc(candidate_scid, amount_msat, salt) ==
    /\ Alive
    /\ \E usable \in {get_usable_slots(candidate_slots, htlc_slots, slot_size_msat,
                                        scid, candidate_scid, amount_msat, salt)} :
             /\ candidate_slots' = usable.cs
             /\ last' = Called("may_add_htlc", candidate_scid, amount_msat,
                               CASE usable.res = "Some" -> "OkTrue"
                                 [] usable.res = "None" -> "OkFalse"
                                 [] OTHER -> usable.res,
                               {})
    /\ UNCHANGED <<params, scid, htlc_slots, slot_size_msat>>

\* GeneralBucket::add_htlc(candidate_scid, amount_msat)
add_htlc(candidate_scid, amount_msat, salt) ==
    /\ Alive
    /\ \E usable \in {get_usable_slots(candidate_slots, htlc_slots, slot_size_msat,
                                        scid, candidate_scid, amount_msat, salt)} :
             IF usable.res # "Some"
             THEN /\ candidate_slots' = usable.cs
                  /\ htlc_slots' = htlc_slots
                  /\ last' = Called("add_htlc", candidate_scid, amount_msat,
                                    IF usable.res = "None" THEN "OkFalse" ELSE usable.res,
                                    {})
             ELSE IF candidate_scid \notin DOMAIN usable.cs
             THEN /\ candidate_slots' = usable.cs
                  /\ htlc_slots' = htlc_slots
                  /\ last' = Called("add_htlc", candidate_scid, amount_msat,
                                    "ErrChannelNotFound", {})
             ELSE \E available_slots \in Take(usable.available, usable.required) :
                  \E done \in {reserve_slots(Visit(available_slots), 1, htlc_slots,
                                              usable.cs[candidate_scid])} :
                        /\ htlc_slots' = done.hs
                        /\ candidate_slots' =
                               [usable.cs EXCEPT ![candidate_scid] = done.chan]
                        /\ last' = Called("add_htlc", candidate_scid, amount_msat,
                                          done.res, {})
    /\ UNCHANGED <<params, scid, slot_size_msat>>

\* remove_htlc that takes the candidate's slots that are occupied globally for
\* the slots the candidate occupies.
remove_htlc_by_global(candidate_scid, amount_msat) ==
    /\ Alive
    /\ LET required_slot_count_ == required_slot_count(slot_size_msat, amount_msat) IN
       IF candidate_scid \notin DOMAIN candidate_slots
       THEN /\ UNCHANGED <<htlc_slots, candidate_slots>>
            /\ last' = Called("remove_htlc", candidate_scid, amount_msat,
                              "ErrChannelNotFound", {})
       ELSE LET channel_slots  == candidate_slots[candidate_scid]
                occupied_slots == {i \in DOMAIN channel_slots : htlc_slots[i]}
            IN  IF Cardinality(occupied_slots) < required_slot_count_
                THEN /\ UNCHANGED <<htlc_slots, candidate_slots>>
                     /\ last' = Called("remove_htlc", candidate_scid, amount_msat,
                                       "ErrBucketTooEmpty", {})
                ELSE \E taken \in Take(occupied_slots, required_slot_count_) :
                     \E done \in {free_slots(Visit(taken), 1, htlc_slots, channel_slots)} :
                           /\ htlc_slots' = done.hs
                           /\ candidate_slots' =
                                  [candidate_slots EXCEPT ![candidate_scid] = done.chan]
                           /\ last' = Called("remove_htlc", candidate_scid, amount_msat,
                                             done.res, {})
    /\ UNCHANGED <<params, scid, slot_size_msat>>

\* remove_htlc with <= for < in the check of the occupied slots.
remove_htlc_off_by_one(candidate_scid, amount_msat) ==
    /\ Alive
    /\ LET required_slot_count_ == required_slot_count(slot_size_msat, amount_msat) IN
       IF candidate_scid \notin DOMAIN candidate_slots
       THEN /\ UNCHANGED <<htlc_slots, candidate_slots>>
            /\ last' = Called("remove_htlc", candidate_scid, amount_msat,
                              "ErrChannelNotFound", {})
       ELSE LET channel_slots  == candidate_slots[candidate_scid]
                occupied_slots == Occupied(channel_slots)
            IN  IF Cardinality(occupied_slots) <= required_slot_count_
                THEN /\ UNCHANGED <<htlc_slots, candidate_slots>>
                     /\ last' = Called("remove_htlc", candidate_scid, amount_msat,
                                       "ErrBucketTooEmpty", {})
                ELSE \E taken \in Take(occupied_slots, required_slot_count_) :
                     \E done \in {free_slots(Visit(taken), 1, htlc_slots, channel_slots)} :
                           /\ htlc_slots' = done.hs
                           /\ candidate_slots' =
                                  [candidate_slots EXCEPT ![candidate_scid] = done.chan]
                           /\ last' = Called("remove_htlc", candidate_scid, amount_msat,
                                             done.res, {})
    /\ UNCHANGED <<params, scid, slot_size_msat>>

\* remove_htlc that frees the slots in the map of any candidate that holds
\* enough of them.
remove_htlc_any_channel(candidate_scid, amount_msat) ==
    /\ Alive
    /\ LET required_slot_count_ == required_slot_count(slot_size_msat, amount_msat) IN
       IF candidate_scid \notin DOMAIN candidate_slots
       THEN /\ UNCHANGED <<htlc_slots, candidate_slots>>
            /\ last' = Called("remove_htlc", candidate_scid, amount_msat,
                              "ErrChannelNotFound", {})
       ELSE IF \A d \in DOMAIN candidate_slots :
                  Cardinality(Occupied(candidate_slots[d])) < required_slot_count_
            THEN /\ UNCHANGED <<htlc_slots, candidate_slots>>
                 /\ last' = Called("remove_htlc", candidate_scid, amount_msat,
                                   "ErrBucketTooEmpty", {})
            ELSE \E d \in DOMAIN candidate_slots :
                 \E taken \in Take(Occupied(candidate_slots[d]), required_slot_count_) :
                 \E done \in {free_slots(Visit(taken), 1, htlc_slots, candidate_slots[d])} :
                       /\ Cardinality(Occupied(candidate_slots[d])) >= required_slot_count_
                       /\ htlc_slots' = done.hs
                       /\ candidate_slots' = [candidate_slots EXCEPT ![d] = done.chan]
                       /\ last' = Called("remove_htlc", candidate_scid, amount_msat,
                                         done.res, {})
    /\ UNCHANGED <<params, scid, slot_size_msat>>

\* remove_htlc that frees the slots the candidate holds before it finds that
\* they are too few.
remove_htlc_partial(candidate_scid, amount_msat) ==
    /\ Alive
    /\ LET required_slot_count_ == required_slot_count(slot_size_msat, amount_msat) IN
       IF candidate_scid \notin DOMAIN candidate_slots
       THEN /\ UNCHANGED <<htlc_slots, candidate_slots>>
            /\ last' = Called("remove_htlc", candidate_scid, amount_msat,
                              "ErrChannelNotFound", {})
       ELSE LET channel_slots  == candidate_slots[candidate_scid]
                occupied_slots == Occupied(channel_slots)
            IN  \E taken \in Take(occupied_slots,
                                  IF Cardinality(occupied_slots) < required_slot_count_
                                  THEN Cardinality(occupied_slots)
                                  ELSE required_slot_count_) :
                \E done \in {free_slots(Visit(taken), 1, htlc_slots, channel_slots)} :
                      /\ htlc_slots' = done.hs
                      /\ candidate_slots' =
                             [candidate_slots EXCEPT ![candidate_scid] = done.chan]
                      /\ last' = Called("remove_htlc", candidate_scid, amount_msat,
                                        IF Cardinality(occupied_slots) < required_slot_count_
                                        THEN "ErrBucketTooEmpty" ELSE done.res, {})
    /\ UNCHANGED <<params, scid, slot_size_msat>>

\* GeneralBucket::remove_htlc(candidate_scid, amount_msat)
remove_htlc(candidate_scid, amount_msat) ==
    /\ Alive
    /\ LET required_slot_count_ == required_slot_count(slot_size_msat, amount_msat) IN
       IF candidate_scid \notin DOMAIN candidate_slots
       THEN /\ UNCHANGED <<htlc_slots, candidate_slots>>
            /\ last' = Called("remove_htlc", candidate_scid, amount_msat,
                              "ErrChannelNotFound", {})
       ELSE LET channel_slots  == candidate_slots[candidate_scid]
                occupied_slots == Occupied(channel_slots)
            IN  IF Cardinality(occupied_slots) < required_slot_count_
                THEN /\ UNCHANGED <<htlc_slots, candidate_slots>>
                     /\ last' = Called("remove_htlc", candidate_scid, amount_msat,
                                       "ErrBucketTooEmpty", {})
                ELSE \E taken \in Take(occupied_slots, required_slot_count_) :
                     \E done \in {free_slots(Visit(taken), 1, htlc_slots, channel_slots)} :
                           /\ htlc_slots' = done.hs
                           /\ candidate_slots' =
                                  [candidate_slots EXCEPT ![candidate_scid] = done.chan]
                           /\ last' = Called("remove_htlc", candidate_scid, amount_msat,
                                             done.res, {})
    /\ UNCHANGED <<params, scid, slot_size_msat>>

\* GeneralBucket::remove_channel(candidate_scid)
remove_channel(candidate_scid) ==
    /\ Alive
    /\ candidate_slots' =
           [c \in DOMAIN candidate_slots \ {candidate_scid} |-> candidate_slots[c]]
    /\ last' = Called("remove_channel", candidate_scid, 0,
                      IF candidate_scid \in DOMAIN candidate_slots
                      THEN "OkTrue" ELSE "OkFalse", {})
    /\ UNCHANGED <<params, scid, htlc_slots, slot_size_msat>>

\* IncomingChannel::general_jam_channel: general_bucket.params is replaced; no
\* other field of the bucket is written.
general_jam_channel ==
    /\ Alive
    /\ params' = [slot_count |-> 0, liquidity_msat |-> 0]
    /\ last' = Called("general_jam_channel", scid, 0, "Ok", {})
    /\ UNCHANGED <<scid, htlc_slots, slot_size_msat, candidate_slots>>

\* ------------------------------------------------------------ specifications

\* The calls a caller makes, with candidate_scid in S, amount_msat in A and the
\* random salt in R.
CallGetCandidateSlots(S, R) ==
    \E c \in S : \E salt \in SaltsFor(c, R) :
        get_candidate_slots(c, salt) /\ UNCHANGED <<in_flight, alloc_vars, interceptor_vars, manager_vars>>
CallMayAddHtlc(S, A, R) ==
    \E c \in S, a \in A : \E salt \in SaltsFor(c, R) :
        may_add_htlc(c, a, salt) /\ UNCHANGED <<in_flight, alloc_vars, interceptor_vars, manager_vars>>
CallAddHtlc(S, A, R) ==
    \E c \in S, a \in A : \E salt \in SaltsFor(c, R) :
        add_htlc(c, a, salt) /\ UNCHANGED <<in_flight, alloc_vars, interceptor_vars, manager_vars>>
CallRemoveHtlc(S, A) ==
    \E c \in S, a \in A : remove_htlc(c, a) /\ UNCHANGED <<in_flight, alloc_vars, interceptor_vars, manager_vars>>
CallRemoveChannel(S) ==
    \E c \in S : remove_channel(c) /\ UNCHANGED <<in_flight, alloc_vars, interceptor_vars, manager_vars>>

\* HTLCs of every amount added to and removed from the bucket, in any order.
NextHtlc ==
    \/ CallAddHtlc(Scids, Amounts, Salts0)
    \/ CallRemoveHtlc(Scids, Amounts)

SpecHtlc == Init /\ [][NextHtlc]_vars

\* Buckets of every size up to SlotCount, and the calls that assign slots.
InitSized ==
    \E n \in 1..SlotCount :
        InitBucket(test_congestion_check, {}, "none",
                   [slot_count |-> n, liquidity_msat |-> LiquidityMsat])

NextSized ==
    \/ CallGetCandidateSlots(Scids, Salts)
    \/ CallMayAddHtlc(Scids, SlotAmounts, Salts)
    \/ CallAddHtlc(Scids, SlotAmounts, Salts)
    \/ CallRemoveHtlc(Scids, SlotAmounts)

SpecSized == InitSized /\ [][NextSized]_vars

\* Every operation of the bucket, channel removal included.
Next ==
    \/ CallGetCandidateSlots(Scids, Salts)
    \/ CallMayAddHtlc(Scids, SlotAmounts, Salts)
    \/ CallAddHtlc(Scids, SlotAmounts, Salts)
    \/ CallRemoveHtlc(Scids, SlotAmounts)
    \/ CallRemoveChannel(Scids)

Spec == Init /\ [][Next]_vars

\* A caller that keeps a record of the HTLCs it added: add_htlc, the HTLC
\* recorded in in_flight when it is admitted.
AddRecorded(S, A, R) ==
    \E c \in S, a \in A : \E salt \in SaltsFor(c, R) :
        /\ add_htlc(c, a, salt)
        /\ in_flight' = IF last'.res = "OkTrue"
                        THEN [in_flight EXCEPT ![c][a] = @ + 1]
                        ELSE in_flight
        /\ UNCHANGED <<alloc_vars, interceptor_vars, manager_vars>>

\* The matching remove of an HTLC of the record: remove_htlc with the candidate
\* and the amount it was added with; the HTLC leaves the record.
RemoveRecorded(S, A) ==
    \E c \in S, a \in A :
        /\ in_flight[c][a] > 0
        /\ remove_htlc(c, a)
        /\ in_flight' = [in_flight EXCEPT ![c][a] = @ - 1]
        /\ UNCHANGED <<alloc_vars, interceptor_vars, manager_vars>>

\* Successful adds and their matching removes, in any order.
NextMatched ==
    \/ AddRecorded(Candidates, Amounts, Salts0)
    \/ RemoveRecorded(Candidates, Amounts)

SpecMatched == Init /\ [][NextMatched]_vars

\* Adds, matching removes and channel removals, in any order.
NextChannel ==
    \/ AddRecorded(Candidates, SlotAmounts, Salts0)
    \/ RemoveRecorded(Candidates, SlotAmounts)
    \/ CallRemoveChannel(Candidates)

SpecChannel == Init /\ [][NextChannel]_vars

\* general_jam_channel as the attack makes it, on the bucket of the channel.
CallGeneralJamChannel == general_jam_channel /\ UNCHANGED <<in_flight, alloc_vars, interceptor_vars, manager_vars>>

\* Admissions, removals and the jamming of the channel, in any order.
NextJam ==
    \/ CallMayAddHtlc(Candidates, SlotAmounts, Salts0)
    \/ CallAddHtlc(Candidates, SlotAmounts, Salts0)
    \/ CallRemoveHtlc(Candidates, SlotAmounts)
    \/ CallGeneralJamChannel

SpecJam == Init /\ [][NextJam]_vars

\* ---------------------------------------------- calls on an AllocationCheck

\* The fields of the general bucket and its caller's record.
bucket_vars ==
    <<params, scid, htlc_slots, slot_size_msat, candidate_slots, last, in_flight>>

\* The htlc_amt_msat values of the calls: a small amount, the per-slot minimum of
\* the congestion bucket and one msat more, and the largest equal share of
\* CongestionResources and one msat more.
HtlcAmounts ==
    {10, MINIMUM_CONGESTION_SLOT_LIQUDITY, MINIMUM_CONGESTION_SLOT_LIQUDITY + 1,
     20000000, 20000001}

\* The reputation of one side of a snapshot: with a revenue threshold of 0 and an
\* htlc risk of 1, below the threshold, equal to it and above it.
SideValues ==
    {ReputationValues(0, 0, 0, 1), ReputationValues(2, 0, 1, 1),
     ReputationValues(2, 0, 0, 1)}

\* The general bucket of a snapshot: one slot, free or used, and less liquidity
\* than the larger amounts.
GeneralResources == {BucketResources(u, 1, 0, 200000) : u \in {0, 1}}

\* The congestion bucket of a snapshot: disabled (no slots or no liquidity), full
\* or with room, and with a per-slot share below and above the minimum.
CongestionResources ==
    {BucketResources(u, a, l, q) :
        u \in {0, 1}, a \in {0, 1, 2}, l \in {0, 10000000}, q \in {0, 20000000, 40000000}}

\* The snapshots the calls are made on.
Checks ==
    {AllocationCheck(i, o, e, g, k) :
        i \in SideValues, o \in SideValues, e \in BOOLEAN,
        g \in GeneralResources, k \in CongestionResources}

\* What a call on the snapshot leaves in outcome.  A snapshot is assembled for
\* one proposed forward and consulted once; the calls take &self and change
\* nothing of it.
Returned(op, htlc_amt_msat, incoming_endorsed, incoming_upgradable, scheme, res) ==
    [op |-> op, amt |-> htlc_amt_msat, endorsed |-> incoming_endorsed,
     upgradable |-> incoming_upgradable, scheme |-> scheme, res |-> res]

\* check.inner_forwarding_outcome(htlc_amt_msat, endorsed, upgradable, scheme)
CallInnerForwardingOutcome ==
    /\ outcome.op = "none"
    /\ \E a \in HtlcAmounts, e \in EndorsementSignal, u \in BOOLEAN, r \in Reputation :
          outcome' = Returned("inner_forwarding_outcome", a, e, u, r,
                              inner_forwarding_outcome(check, a, e, u, r))
    /\ UNCHANGED <<bucket_vars, check, interceptor_vars, manager_vars>>

\* check.forwarding_outcome(htlc_amt_msat, endorsed, upgradable, scheme)
CallForwardingOutcome ==
    /\ outcome.op = "none"
    /\ \E a \in HtlcAmounts, e \in EndorsementSignal, u \in BOOLEAN, r \in Reputation :
          outcome' = Returned("forwarding_outcome", a, e, u, r,
                              forwarding_outcome(check, a, e, u, r))
    /\ UNCHANGED <<bucket_vars, check, interceptor_vars, manager_vars>>

\* check.congestion_resources_available(htlc_amt_msat)
CallCongestionResourcesAvailable ==
    /\ outcome.op = "none"
    /\ \E a \in HtlcAmounts :
          outcome' = Returned("congestion_resources_available", a, "Unendorsed", FALSE,
                              "Incoming", congestion_resources_available(check, a))
    /\ UNCHANGED <<bucket_vars, check, interceptor_vars, manager_vars>>

\* scheme.sufficient_reputation(&check)
CallSchemeSufficientReputation ==
    /\ outcome.op = "none"
    /\ \E r \in Reputation :
          outcome' = Returned("Reputation::sufficient_reputation", 0, "Unendorsed",
                              FALSE, r, Reputation_sufficient_reputation(r, check))
    /\ UNCHANGED <<bucket_vars, check, interceptor_vars, manager_vars>>

\* check.reputation_check.incoming_reputation.sufficient_reputation()
CallSufficientReputation ==
    /\ outcome.op = "none"
    /\ outcome' = Returned("sufficient_reputation", 0, "Unendorsed", FALSE, "Incoming",
                           sufficient_reputation(check.reputation_check.incoming_reputation))
    /\ UNCHANGED <<bucket_vars, check, interceptor_vars, manager_vars>>

\* A snapshot of Checks and the decisions taken on it.
InitAlloc == \E c \in Checks : InitWith(c)

NextAlloc ==
    \/ CallInnerForwardingOutcome
    \/ CallForwardingOutcome
    \/ CallCongestionResourcesAvailable
    \/ CallSchemeSufficientReputation

SpecAlloc == InitAlloc /\ [][NextAlloc]_vars

\* The i64 and u64 values at and next to the ends of their ranges.
I64Values == {I64_MIN, I64_MIN + 1, 0 - 1, 0, 1, I64_MAX - 1, I64_MAX}
U64Values == {0, 1, 2, I64_MAX - 1, I64_MAX, I64_MAX + 1, U64_MAX}

\* The snapshots whose incoming side takes its four values from the ends of
\* their ranges.
ReputationChecks ==
    {AllocationCheck(ReputationValues(r, t, f, h), ReputationValues(0, 0, 0, 0), TRUE,
                     BucketResources(10, 10, 0, 200000),
                     BucketResources(0, 10, 0, MINIMUM_CONGESTION_SLOT_LIQUDITY * 20)) :
        r \in I64Values, t \in I64Values, f \in U64Values, h \in U64Values}

InitReputation == \E c \in ReputationChecks : InitWith(c)

NextReputation == CallSufficientReputation

SpecReputation == InitReputation /\ [][NextReputation]_vars

\* ------------------------------------------------- calls on a ProposedForward

\* The amounts of the forwards that are validated: at and next to 0 and the
\* supply cap.
CapAmounts == {0, 1, 2, SUPPLY_CAP_MSAT, SUPPLY_CAP_MSAT + 1}

\* The forwards that are validated.
CapForwards ==
    {ProposedForward(HtlcRef(OwnScid, 0), 2, ain, aout, ein, eout, "Unendorsed", TRUE) :
        ain \in CapAmounts, aout \in CapAmounts, ein \in {0, 1}, eout \in {0, 1}}

\* forward.validate()
CallValidate ==
    /\ reply.op = "none"
    /\ \E p \in CapForwards :
          reply' = [op |-> "validate", forward |-> p, res |-> validate(p)]
    /\ UNCHANGED <<bucket_vars, alloc_vars, interceptor_vars, htlcs, channels, task_vars>>

\* forward.fee_msat(), which the manager calls once validate has passed.
CallFeeMsat ==
    /\ reply.op = "validate" /\ reply.res = <<"Ok">>
    /\ \E fee \in fee_msat(reply.forward) :
          reply' = [op |-> "fee_msat", forward |-> reply.forward, res |-> fee]
    /\ UNCHANGED <<bucket_vars, alloc_vars, interceptor_vars, htlcs, channels, task_vars>>

NextValidate == CallValidate \/ CallFeeMsat

SpecValidate == Init /\ [][NextValidate]_vars

\* ------------------------------------------------- calls on the manager

\* The largest revenue, and the least outgoing_reputation, of a channel to which
\* add_htlc is still called.
MaxRevenue == 1

\* The fee of the forwards offered to the manager, and their cltv deltas: with
\* the first the risk of the HTLC is below its fee, with the second above.
ForwardFee == 2
ForwardDelta == <<1, 3>>

\* The forwards offered to the manager: two HtlcRefs of the incoming channel,
\* each outgoing channel, an amount that fits the general bucket and one that
\* does not, the three signals, and a forward with a negative fee.
ManagerForwards ==
    {ProposedForward(HtlcRef(OwnScid, i), SnapshotChannel, aout + ForwardFee, aout, ForwardDelta[i + 1], 0, e[1], e[2]) :
        i \in {0, 1}, aout \in {10, 11},
        e \in {<<"Unendorsed", TRUE>>, <<"Endorsed", TRUE>>, <<"Endorsed", FALSE>>}}
    \cup {ProposedForward(HtlcRef(OwnScid, 0), SnapshotChannel, 2, 11, 1, 0, "Unendorsed", TRUE)}

\* What rng.fill(&mut salt) yields in the calls of the manager.
ManagerSalt == [base |-> 0, step |-> 1, rep |-> 1]

\* The resolutions passed to the manager: of the forwards offered, and one of
\* a forward to the other channel, which is never offered.
ManagerResolutions ==
    {<<SnapshotChannel, HtlcRef(OwnScid, i), resolution>> :
        i \in {0, 1}, resolution \in {"Settled", "Failed"}}
    \cup {<<o, HtlcRef(OwnScid, 0), "Settled">> : o \in Candidates \ {SnapshotChannel}}

\* The instants a caller with a monotone clock passes for the channel.
InstantsFor(o) ==
    {t \in {0, MaxInstant} : /\ t >= channels[o].outgoing_reputation.last_updated
                             /\ t >= channels[o].revenue.last_updated}

\* The channel is within the bounds of the exploration.
Bounded(o) ==
    /\ channels[o].revenue.value <= MaxRevenue
    /\ channels[o].outgoing_reputation.value >= 0 - MaxRevenue

\* What a call on the manager leaves in reply.
Replied(op, forward, res) == [op |-> op, forward |-> forward, res |-> res]

\* ReputationManager::get_forwarding_outcome(forward) at the instant.
ReputationManager_get_forwarding_outcome(forward, instant, salt) ==
    IF validate(forward) # <<"Ok">>
    THEN /\ reply' = Replied("get_forwarding_outcome", forward, validate(forward))
         /\ UNCHANGED <<bucket_vars, htlcs, channels>>
    ELSE \E usable \in {get_usable_slots(candidate_slots, htlc_slots, slot_size_msat, scid,
                                          forward.outgoing_channel_id,
                                          forward.amount_out_msat, salt)} :
         \E snap \in {allocation_snapshot(channels, htlcs, htlc_slots, forward, instant,
                                           usable.res = "Some")} :
            /\ may_add_htlc(forward.outgoing_channel_id, forward.amount_out_msat, salt)
            /\ channels' = [channels EXCEPT ![forward.outgoing_channel_id] = snap.channel]
            /\ reply' = Replied("get_forwarding_outcome", forward,
                                <<"Ok", forwarding_outcome(snap.check, forward.amount_out_msat,
                                                           forward.incoming_endorsed,
                                                           forward.upgradable_endorsement,
                                                           REPUTATION_SCHEME)>>)
            /\ UNCHANGED <<in_flight, htlcs>>

\* ReputationManager::add_htlc(forward), forward.added_at being the instant.
ReputationManager_add_htlc(forward, instant, salt) ==
    IF validate(forward) # <<"Ok">>
    THEN /\ reply' = Replied("add_htlc", forward, validate(forward))
         /\ UNCHANGED <<bucket_vars, htlcs, channels>>
    ELSE IF is_in_flight(htlcs, <<forward.outgoing_channel_id, forward.incoming_ref>>)
    THEN /\ reply' = Replied("add_htlc", forward,
                             <<"ErrDuplicateHtlc", forward.incoming_ref>>)
         /\ UNCHANGED <<bucket_vars, htlcs, channels>>
    ELSE \E usable \in {get_usable_slots(candidate_slots, htlc_slots, slot_size_msat, scid,
                                          forward.outgoing_channel_id,
                                          forward.amount_out_msat, salt)} :
         \E snap \in {allocation_snapshot(channels, htlcs, htlc_slots, forward, instant,
                                           usable.res = "Some")} :
         \E decision \in {inner_forwarding_outcome(snap.check, forward.amount_out_msat,
                                                    forward.incoming_endorsed,
                                                    forward.upgradable_endorsement,
                                                    REPUTATION_SCHEME)} :
            /\ IF decision = <<"Ok", "General">>
               THEN add_htlc(forward.outgoing_channel_id, forward.amount_out_msat, salt)
               ELSE may_add_htlc(forward.outgoing_channel_id, forward.amount_out_msat, salt)
            /\ htlcs' = records_after_add(htlcs, forward, decision)
            /\ channels' =
                   [channels EXCEPT ![forward.outgoing_channel_id] =
                       IF decision[1] = "Ok"
                       THEN [snap.channel EXCEPT !.in_flight_total_risk =
                                risk_after_add(@, InFlightHtlc(forward, decision[2]))]
                       ELSE snap.channel]
            /\ reply' = Replied("add_htlc", forward, <<"Ok", snap.check, decision>>)
            /\ UNCHANGED in_flight

\* ReputationManager::resolve_htlc(outgoing_channel, incoming_ref, resolution,
\* resolved_instant)
ReputationManager_resolve_htlc(outgoing_channel, incoming_ref, resolution, resolved_instant) ==
    LET live == Live(htlcs, <<outgoing_channel, incoming_ref>>)
        key  == [outgoing_channel_id |-> outgoing_channel, incoming_ref |-> incoming_ref,
                 resolution |-> resolution]
    IN
    IF live = {}
    THEN /\ reply' = Replied("resolve_htlc", key, <<"ErrForwardNotFound">>)
         /\ UNCHANGED <<bucket_vars, htlcs, channels>>
    ELSE \E i \in {CHOOSE j \in live : \A k \in live : j <= k} :
            /\ IF htlcs[i].bucket = "General"
               THEN remove_htlc(outgoing_channel, htlcs[i].amount_msat)
               ELSE UNCHANGED <<params, scid, htlc_slots, slot_size_msat,
                                candidate_slots, last>>
            /\ htlcs' = records_after_resolve(htlcs, i)
            /\ channels' = [channels EXCEPT ![outgoing_channel] =
                                resolved_channel(@, htlcs[i], resolution, resolved_instant)]
            /\ reply' = Replied("resolve_htlc", key, <<"Ok">>)
            /\ UNCHANGED in_flight

CallManagerGetForwardingOutcome ==
    /\ \E forward \in {p \in ManagerForwards : p.incoming_ref.htlc_index = 0} :
       \E salt \in SaltsFor(forward.outgoing_channel_id, {ManagerSalt}) :
       \E instant \in InstantsFor(forward.outgoing_channel_id) :
          ReputationManager_get_forwarding_outcome(forward, instant, salt)
    /\ UNCHANGED <<alloc_vars, interceptor_vars, task_vars>>

CallManagerAddHtlc ==
    /\ \E forward \in ManagerForwards :
       \E salt \in SaltsFor(forward.outgoing_channel_id, {ManagerSalt}) :
       \E instant \in InstantsFor(forward.outgoing_channel_id) :
          /\ Bounded(forward.outgoing_channel_id)
          /\ ReputationManager_add_htlc(forward, instant, salt)
    /\ UNCHANGED <<alloc_vars, interceptor_vars, task_vars>>

CallManagerResolveHtlc ==
    /\ \E call \in ManagerResolutions :
       \E instant \in InstantsFor(call[1]) :
          ReputationManager_resolve_htlc(call[1], call[2], call[3], instant)
    /\ UNCHANGED <<alloc_vars, interceptor_vars, task_vars>>

NextManager ==
    \/ CallManagerGetForwardingOutcome
    \/ CallManagerAddHtlc
    \/ CallManagerResolveHtlc

SpecManager == Init /\ [][NextManager]_vars

\* ------------------------------------------- concurrent calls on the manager

\* The tasks that call the manager concurrently, one per operation.
ManagerTasks == {"add_htlc", "resolve_htlc", "get_forwarding_outcome"}

\* The forward the tasks add, resolve and ask about: unendorsed, to the channel
\* without reputation, of an amount that takes three slots of the general bucket.
ConcurrentForward ==
    ProposedForward(HtlcRef(OwnScid, 0), 3, 5, 5, 1, 0, "Unendorsed", TRUE)

\* The task moves to the label.
Goto(t, label) == pc' = [pc EXCEPT ![t] = label]

\* self.inner.lock(): the task waits for the mutex of the manager.
Acquire(t) ==
    /\ pc[t] = "lock"
    /\ try_lock(lock)
    /\ lock' = t
    /\ Goto(t, "locked")
    /\ UNCHANGED <<bucket_vars, alloc_vars, interceptor_vars, htlcs, channels, reply, local, clock, average>>

\* The guard is dropped when the call returns.
Release(t) ==
    /\ pc[t] = "unlock"
    /\ lock' = "free"
    /\ Goto(t, "lock")
    /\ UNCHANGED <<bucket_vars, alloc_vars, interceptor_vars, htlcs, channels, reply, local, clock, average>>

\* add_htlc up to its decision: the duplicate check, the snapshot and the
\* bucket; for the general bucket the slots to reserve are chosen.
AddDecide ==
    LET t == "add_htlc"
        forward == ConcurrentForward
        o == forward.outgoing_channel_id
    IN
    /\ pc[t] = "locked"
    /\ IF is_in_flight(htlcs, ForwardKey(forward))
       THEN /\ reply' = Replied("add_htlc", forward,
                                <<"ErrDuplicateHtlc", forward.incoming_ref>>)
            /\ Goto(t, "unlock")
            /\ UNCHANGED <<candidate_slots, channels, local>>
       ELSE \E usable \in {get_usable_slots(candidate_slots, htlc_slots, slot_size_msat,
                                             scid, o, forward.amount_out_msat,
                                             ManagerSalt)} :
            \E snap \in {allocation_snapshot(channels, htlcs, htlc_slots, forward, 0,
                                              usable.res = "Some")} :
            \E decision \in {inner_forwarding_outcome(snap.check, forward.amount_out_msat,
                                                       forward.incoming_endorsed,
                                                       forward.upgradable_endorsement,
                                                       REPUTATION_SCHEME)} :
               /\ candidate_slots' = usable.cs
               /\ channels' = [channels EXCEPT ![o] = snap.channel]
               /\ IF decision = <<"Ok", "General">>
                  THEN \E available_slots \in Take(usable.available, usable.required) :
                          /\ local' = [local EXCEPT ![t].order = Visit(available_slots),
                                                    ![t].k = 1]
                          /\ Goto(t, "global")
                          /\ reply' = reply
                  ELSE /\ reply' = Replied("add_htlc", forward,
                                           <<"Ok", snap.check, decision>>)
                       /\ Goto(t, "unlock")
                       /\ local' = local
    /\ UNCHANGED <<params, scid, htlc_slots, slot_size_msat, last, in_flight, alloc_vars, interceptor_vars,
                   htlcs, lock, clock, average>>

\* GeneralBucket::add_htlc, the write self.htlc_slots[index] = true after its
\* assertion.
AddGlobal ==
    LET t == "add_htlc"
        index == local[t].order[local[t].k]
    IN
    /\ pc[t] = "global"
    /\ IF htlc_slots[index]
       THEN Goto(t, "panic") /\ htlc_slots' = htlc_slots
       ELSE Goto(t, "candidate") /\ htlc_slots' = [htlc_slots EXCEPT ![index] = TRUE]
    /\ UNCHANGED <<params, scid, slot_size_msat, candidate_slots, last, in_flight,
                   alloc_vars, interceptor_vars, htlcs, channels, reply, lock, local, clock, average>>

\* GeneralBucket::add_htlc, the write of the candidate's entry for the slot.
AddCandidate ==
    LET t == "add_htlc"
        o == ConcurrentForward.outgoing_channel_id
        index == local[t].order[local[t].k]
    IN
    /\ pc[t] = "candidate"
    /\ IF candidate_slots[o][index]
       THEN Goto(t, "panic") /\ UNCHANGED <<candidate_slots, local>>
       ELSE /\ candidate_slots' = [candidate_slots EXCEPT ![o][index] = TRUE]
            /\ local' = [local EXCEPT ![t].k = @ + 1]
            /\ Goto(t, IF local[t].k = Len(local[t].order) THEN "record" ELSE "global")
    /\ UNCHANGED <<params, scid, htlc_slots, slot_size_msat, last, in_flight,
                   alloc_vars, interceptor_vars, htlcs, channels, reply, lock, clock, average>>

\* add_htlc records the HTLC as in flight.
AddRecord ==
    LET t == "add_htlc" IN
    /\ pc[t] = "record"
    /\ htlcs' = Append(htlcs, InFlightHtlc(ConcurrentForward, "General"))
    /\ reply' = Replied("add_htlc", ConcurrentForward, <<"Ok">>)
    /\ Goto(t, "unlock")
    /\ UNCHANGED <<bucket_vars, alloc_vars, interceptor_vars, channels, lock, local, clock, average>>

\* resolve_htlc up to the removal of the record; the slots to free are chosen.
ResolveFind ==
    LET t == "resolve_htlc"
        o == ConcurrentForward.outgoing_channel_id
        live == Live(htlcs, ForwardKey(ConcurrentForward))
    IN
    /\ pc[t] = "locked"
    /\ IF live = {} \/ o \notin DOMAIN candidate_slots
       THEN /\ reply' = Replied("resolve_htlc", ConcurrentForward, <<"ErrForwardNotFound">>)
            /\ Goto(t, "unlock")
            /\ UNCHANGED <<htlcs, local>>
       ELSE \E i \in live :
            \E required \in {required_slot_count(slot_size_msat, htlcs[i].amount_msat)} :
               IF Cardinality(Occupied(candidate_slots[o])) < required
               THEN /\ reply' = Replied("resolve_htlc", ConcurrentForward,
                                        <<"ErrBucketTooEmpty">>)
                    /\ Goto(t, "unlock")
                    /\ UNCHANGED <<htlcs, local>>
               ELSE \E taken \in Take(Occupied(candidate_slots[o]), required) :
                       /\ htlcs' = records_after_resolve(htlcs, i)
                       /\ local' = [local EXCEPT ![t].order = Visit(taken), ![t].k = 1]
                       /\ reply' = reply
                       /\ Goto(t, "free_global")
    /\ UNCHANGED <<bucket_vars, alloc_vars, interceptor_vars, channels, lock, clock, average>>

\* GeneralBucket::remove_htlc, the write self.htlc_slots[i] = false after its
\* assertion.
ResolveGlobal ==
    LET t == "resolve_htlc"
        index == local[t].order[local[t].k]
    IN
    /\ pc[t] = "free_global"
    /\ IF ~htlc_slots[index]
       THEN Goto(t, "panic") /\ htlc_slots' = htlc_slots
       ELSE Goto(t, "free_candidate") /\ htlc_slots' = [htlc_slots EXCEPT ![index] = FALSE]
    /\ UNCHANGED <<params, scid, slot_size_msat, candidate_slots, last, in_flight,
                   alloc_vars, interceptor_vars, htlcs, channels, reply, lock, local, clock, average>>

\* GeneralBucket::remove_htlc, the write of the candidate's entry for the slot.
ResolveCandidate ==
    LET t == "resolve_htlc"
        o == ConcurrentForward.outgoing_channel_id
        index == local[t].order[local[t].k]
    IN
    /\ pc[t] = "free_candidate"
    /\ IF ~candidate_slots[o][index]
       THEN Goto(t, "panic") /\ UNCHANGED <<candidate_slots, local, reply>>
       ELSE /\ candidate_slots' = [candidate_slots EXCEPT ![o][index] = FALSE]
            /\ local' = [local EXCEPT ![t].k = @ + 1]
            /\ IF local[t].k = Len(local[t].order)
               THEN /\ Goto(t, "unlock")
                    /\ reply' = Replied("resolve_htlc", ConcurrentForward, <<"Ok">>)
               ELSE Goto(t, "free_global") /\ reply' = reply
    /\ UNCHANGED <<params, scid, htlc_slots, slot_size_msat, last, in_flight,
                   alloc_vars, interceptor_vars, htlcs, channels, lock, clock, average>>

\* get_forwarding_outcome reads the slots and the in-flight records.
QueryRead ==
    LET t == "get_forwarding_outcome" IN
    /\ pc[t] = "locked"
    /\ local' = [local EXCEPT ![t].seen = [hs |-> htlc_slots, cs |-> candidate_slots,
                                           records |-> htlcs]]
    /\ Goto(t, "unlock")
    /\ UNCHANGED <<bucket_vars, alloc_vars, interceptor_vars, htlcs, channels, reply, lock, clock, average>>

InitConcurrent == InitTasks(test_congestion_check, ManagerTasks, "lock")

NextConcurrent ==
    \/ \E t \in ManagerTasks : Acquire(t)
    \/ \E t \in ManagerTasks : Release(t)
    \/ AddDecide
    \/ AddGlobal
    \/ AddCandidate
    \/ AddRecord
    \/ ResolveFind
    \/ ResolveGlobal
    \/ ResolveCandidate
    \/ QueryRead

SpecConcurrent == InitConcurrent /\ [][NextConcurrent]_vars

\* ------------------------------------- tasks that query a shared average

\* The tasks spawned by test_replicate_last_updated_in_past.
ClockTasks == {"Task 1", "Task 2"}

\* shutdown.trigger() was called.
Triggered(locals) == \E t \in ClockTasks : locals[t].res[1] = "ErrUpdateInPast"

\* The wall clock, and with it the simulated time, advances.
Tick ==
    /\ clock < MaxInstant
    /\ clock' = clock + 1
    /\ UNCHANGED <<bucket_vars, alloc_vars, interceptor_vars, htlcs, channels, reply, lock, pc, local, average>>

\* let now = InstantClock::now(&*clock)
SampleNow(t) ==
    /\ pc[t] = "now"
    /\ local' = [local EXCEPT ![t].now = clock]
    /\ Goto(t, "lock")
    /\ UNCHANGED <<bucket_vars, alloc_vars, interceptor_vars, htlcs, channels, reply, lock, clock, average>>

\* avg.lock().await.value_at_instant(now), with the mutex held.
QueryAverage(t) ==
    /\ pc[t] = "locked"
    /\ \E at \in {value_at_instant(average, local[t].now)} :
          /\ average' = at.avg
          /\ local' = [local EXCEPT ![t].res = at.res]
    /\ Goto(t, "unlock")
    /\ UNCHANGED <<bucket_vars, alloc_vars, interceptor_vars, htlcs, channels, reply, lock, clock>>

\* The guard is dropped; the task leaves the loop if the listener is triggered.
ReleaseAverage(t) ==
    /\ pc[t] = "unlock"
    /\ lock' = "free"
    /\ Goto(t, IF Triggered(local) THEN "done" ELSE "now")
    /\ UNCHANGED <<bucket_vars, alloc_vars, interceptor_vars, htlcs, channels, reply, local, clock, average>>

InitClock == InitTasks(test_congestion_check, ClockTasks, "now")

NextClock ==
    \/ Tick
    \/ \E t \in ClockTasks : SampleNow(t)
    \/ \E t \in ClockTasks : Acquire(t)
    \/ \E t \in ClockTasks : QueryAverage(t)
    \/ \E t \in ClockTasks : ReleaseAverage(t)

SpecClock == InitClock /\ [][NextClock]_vars

\* ------------------------------------------------------- the wire signal

\* The TLV types of the accountable signal and of the upgradable signal.
ACCOUNTABLE_TYPE == 106823
UPGRADABLE_TYPE == 106825

\* accountable_from_records without the check of the length.
accountable_from_records_first_byte(records) ==
    IF ACCOUNTABLE_TYPE \in DOMAIN records
    THEN LET accountable == records[ACCOUNTABLE_TYPE] IN
         IF Len(accountable) >= 1 /\ accountable[1] = 1
         THEN "Accountable" ELSE "Unaccountable"
    ELSE "Unaccountable"

\* accountable_from_records(records): records maps TLV types to byte vectors.
accountable_from_records(records) ==
    IF ACCOUNTABLE_TYPE \in DOMAIN records
    THEN LET accountable == records[ACCOUNTABLE_TYPE] IN
         IF Len(accountable) = 1 /\ accountable[1] = 1
         THEN "Accountable" ELSE "Unaccountable"
    ELSE "Unaccountable"

\* upgradable_from_records(records)
upgradable_from_records(records) ==
    IF UPGRADABLE_TYPE \in DOMAIN records
    THEN LET upgradable == records[UPGRADABLE_TYPE] IN
         Len(upgradable) = 1 /\ upgradable[1] = 1
    ELSE FALSE

\* The byte vectors of the records that are decoded: empty, one byte (0x01 and
\* others), and longer ones that begin or end with 0x01.
RecordValues == {<< >>, <<0>>, <<1>>, <<2>>, <<255>>, <<1, 0>>, <<1, 1>>, <<0, 1>>}

\* The custom records that are decoded: each of the two signal types absent or
\* present with one of the values, with or without a record of another type.
CustomRecords ==
    UNION {[types -> RecordValues] :
              types \in SUBSET {ACCOUNTABLE_TYPE, UPGRADABLE_TYPE, ACCOUNTABLE_TYPE + 1}}

CallAccountableFromRecords ==
    /\ reply.op = "none"
    /\ \E records \in CustomRecords :
          reply' = Replied("accountable_from_records", records,
                           <<accountable_from_records(records)>>)
    /\ UNCHANGED <<bucket_vars, alloc_vars, interceptor_vars, htlcs, channels, task_vars>>

CallUpgradableFromRecords ==
    /\ reply.op = "none"
    /\ \E records \in CustomRecords :
          reply' = Replied("upgradable_from_records", records,
                           <<upgradable_from_records(records)>>)
    /\ UNCHANGED <<bucket_vars, alloc_vars, interceptor_vars, htlcs, channels, task_vars>>

\* records_from_signal that sets the accountable record for both signals.
records_from_signal_always_accountable(signal) ==
    (UPGRADABLE_TYPE :> <<1>>) @@ (ACCOUNTABLE_TYPE :> <<1>>)

\* records_from_signal(signal): the upgradable record is always inserted, the
\* accountable record for Accountable only.
records_from_signal(signal) ==
    LET records == (UPGRADABLE_TYPE :> <<1>>) IN
    IF signal = "Unaccountable" THEN records
    ELSE records @@ (ACCOUNTABLE_TYPE :> <<1>>)

\* enum AccountableSignal
AccountableSignal == {"Accountable", "Unaccountable"}

CallRecordsFromSignal ==
    /\ reply.op = "none"
    /\ \E signal \in AccountableSignal :
          reply' = Replied("records_from_signal", signal, <<records_from_signal(signal)>>)
    /\ UNCHANGED <<bucket_vars, alloc_vars, interceptor_vars, htlcs, channels, task_vars>>

NextRecords ==
    \/ CallAccountableFromRecords
    \/ CallUpgradableFromRecords
    \/ CallRecordsFromSignal

SpecRecords == Init /\ [][NextRecords]_vars

\* ------------------------------------------------- calls of GeneralBucket::new

\* The parameters of the buckets that are created: every slot_count up to
\* SlotCount and every liquidity_msat up to LiquidityMsat + SlotCount.
NewParameters ==
    [slot_count : 0..SlotCount, liquidity_msat : 0..(LiquidityMsat + SlotCount)]

\* GeneralBucket::new(scid, params)
CallNew ==
    /\ reply.op = "none"
    /\ \E p \in NewParameters :
          reply' = [op |-> "new", forward |-> p, res |-> GeneralBucket_new(OwnScid, p).res,
                    bucket |-> GeneralBucket_new(OwnScid, p).bucket]
    /\ UNCHANGED <<bucket_vars, alloc_vars, interceptor_vars, htlcs, channels, task_vars>>

NextNew == CallNew

SpecNew == Init /\ [][NextNew]_vars

\* ------------------------------------------------ AttackInterceptor, SlowJam

\* AttackInterceptor.attacker_pubkeys
AttackerPubkeys == {"attacker"}

\* The nodes that forward the intercepted HTLCs.
ForwardingNodes == {"attacker", "target"}

\* The payment hashes of the intercepted HTLCs and of the jamming payments.
PaymentHashes == {"h1", "h2"}

\* The channels an HTLC comes in over at the forwarding node.
IncomingChannels == {"attacker-target", "peer-target"}

\* InterceptRequest::outgoing_channel_id : Option<ShortChannelID>
OutgoingChannelIds == {<<"None">>, <<"Some", "target-attacker">>}

\* The requests of the simulator: InterceptRequest with the fields that the
\* interceptors read.
InterceptRequests ==
    [forwarding_node : ForwardingNodes,
     payment_hash : PaymentHashes,
     incoming_channel : IncomingChannels,
     outgoing_channel_id : OutgoingChannelIds,
     incoming_custom_records : {records_from_signal(signal) : signal \in AccountableSignal}]

\* The requests for an HTLC that an attacker receives.
AttackerReceives ==
    {req \in InterceptRequests :
        req.forwarding_node \in AttackerPubkeys /\ req.outgoing_channel_id = <<"None">>}

\* What the inner reputation interceptor answers: forward with the records of a
\* signal, or fail the HTLC.
InnerResults ==
    {<<"Ok", "Ok", records_from_signal(signal)>> : signal \in AccountableSignal}
        \cup {<<"Ok", "Err", "InterceptorError">>}

\* JammingAttack::intercept_attacker_htlc, the default that SlowJam keeps.
intercept_attacker_htlc(req) ==
    <<"Ok", "Ok", records_from_signal(accountable_from_records(req.incoming_custom_records))>>

\* SlowJam::intercept_attacker_receive: [res, jamming_payments (after)]
intercept_attacker_receive(payments, req) ==
    IF req.payment_hash \notin payments
    THEN [res |-> <<"Ok", "Ok", req.incoming_custom_records>>, jamming_payments |-> payments]
    ELSE [res |-> <<"Ok", "Err", "InterceptorError">>,
          jamming_payments |-> payments \ {req.payment_hash}]

\* intercept_htlc that hands the attack every HTLC that came in over the
\* attacker's channel.
AttackInterceptor_intercept_htlc_by_channel(payments, req, inner) ==
    IF req.forwarding_node \in AttackerPubkeys \/ req.incoming_channel = "attacker-target"
    THEN IF req.outgoing_channel_id[1] = "Some"
         THEN [by |-> "intercept_attacker_htlc", res |-> intercept_attacker_htlc(req),
               jamming_payments |-> payments]
         ELSE [by |-> "intercept_attacker_receive",
               res |-> intercept_attacker_receive(payments, req).res,
               jamming_payments |-> intercept_attacker_receive(payments, req).jamming_payments]
    ELSE [by |-> "reputation_interceptor", res |-> inner, jamming_payments |-> payments]

\* AttackInterceptor::intercept_htlc: [by (the handler called), res,
\* jamming_payments (after)]; inner is the answer of the reputation interceptor.
AttackInterceptor_intercept_htlc(payments, req, inner) ==
    IF req.forwarding_node \in AttackerPubkeys
    THEN IF req.outgoing_channel_id[1] = "Some"
         THEN [by |-> "intercept_attacker_htlc", res |-> intercept_attacker_htlc(req),
               jamming_payments |-> payments]
         ELSE [by |-> "intercept_attacker_receive",
               res |-> intercept_attacker_receive(payments, req).res,
               jamming_payments |-> intercept_attacker_receive(payments, req).jamming_payments]
    ELSE [by |-> "reputation_interceptor", res |-> inner, jamming_payments |-> payments]

\* notify_resolution that delegates every resolution.
AttackInterceptor_notify_resolution_always(resolution) ==
    [by |-> "reputation_interceptor", res |-> <<"Ok">>]

\* AttackInterceptor::notify_resolution: [by (the handler called), res]
AttackInterceptor_notify_resolution(resolution) ==
    IF resolution.forwarding_node \in AttackerPubkeys
    THEN [by |-> "none", res |-> <<"Ok">>]
    ELSE [by |-> "reputation_interceptor", res |-> <<"Ok">>]

\* ------------------------------- calls on the AttackInterceptor, the attack

\* The simulator asks the interceptor about an HTLC of the requests R; it holds
\* at most one HTLC of a payment hash at a time, and holds the HTLC until its
\* resolution when the answer is to forward it.
CallInterceptHtlc(R) ==
    \E req \in R, inner \in InnerResults :
        /\ \A held \in requests : held.payment_hash # req.payment_hash
        /\ \E out \in {AttackInterceptor_intercept_htlc(jamming_payments, req, inner)} :
              /\ handled' = [op |-> "intercept_htlc", req |-> req, by |-> out.by,
                             res |-> out.res]
              /\ jamming_payments' = out.jamming_payments
              /\ requests' = IF out.res[2] = "Ok" THEN requests \cup {req} ELSE requests
              /\ monitor' = IF out.by = "reputation_interceptor" /\ out.res[2] = "Ok"
                            THEN monitor \cup {req}
                            ELSE monitor
        /\ UNCHANGED <<shutdown, attack_pc, bucket_vars, alloc_vars, manager_vars>>

\* The simulator reports the resolution of an HTLC it holds.
CallNotifyResolution ==
    \E req \in requests :
        /\ \E out \in {AttackInterceptor_notify_resolution(req)} :
              /\ handled' = [op |-> "notify_resolution", req |-> req, by |-> out.by,
                             res |-> out.res]
              /\ monitor' = IF out.by = "reputation_interceptor"
                            THEN monitor \ {req}
                            ELSE monitor
        /\ requests' = requests \ {req}
        /\ UNCHANGED <<jamming_payments, shutdown, attack_pc, bucket_vars, alloc_vars,
                       manager_vars>>

\* One step of SlowJam::run_custom_actions from the position from to the
\* position to.
AttackGoto(from, to) ==
    /\ attack_pc = from
    /\ attack_pc' = to
    /\ UNCHANGED <<requests, monitor, handled, shutdown, bucket_vars, alloc_vars,
                   manager_vars>>

\* build_reputation: Ok(fees_paid), or an error (also when the reputation built
\* is not sufficient).
BuildReputation ==
    \E ok \in BOOLEAN :
        /\ AttackGoto("build_reputation", IF ok THEN "jam_channel" ELSE "failed")
        /\ UNCHANGED jamming_payments

\* general_jammer.jam_channel, then the start of fast_jam_channel up to the
\* route.
JamChannel ==
    \E ok \in BOOLEAN :
        /\ AttackGoto("jam_channel", IF ok THEN "send_to_route" ELSE "failed")
        /\ UNCHANGED jamming_payments

\* The loop of fast_jam_channel: send_to_route with a fresh payment hash, and
\* the insert into jamming_payments.
SendToRoute ==
    \E ok \in BOOLEAN, payment_hash \in PaymentHashes :
        /\ AttackGoto("send_to_route", IF ok THEN "sleep" ELSE "failed")
        /\ jamming_payments' = IF ok THEN jamming_payments \cup {payment_hash}
                                ELSE jamming_payments

\* thread::sleep(Duration::from_millis(200))
Sleep ==
    /\ AttackGoto("sleep", "sufficient_reputation")
    /\ UNCHANGED jamming_payments

\* The end of the loop body: break when the reputation is not sufficient any
\* more, return the error of the check, or go round again.
CheckReputation ==
    \E sufficient \in {"true", "false", "error"} :
        /\ AttackGoto("sufficient_reputation",
                      CASE sufficient = "true" -> "send_to_route"
                        [] sufficient = "false" -> "done"
                        [] OTHER -> "failed")
        /\ UNCHANGED jamming_payments

\* The steps of the attack.
SlowJamStep == BuildReputation \/ JamChannel \/ SendToRoute \/ Sleep \/ CheckReputation

\* The simulation triggers the shutdown.
TriggerShutdown ==
    /\ ~shutdown
    /\ shutdown' = TRUE
    /\ UNCHANGED <<requests, monitor, handled, jamming_payments, attack_pc, bucket_vars,
                   alloc_vars, manager_vars>>

\* The interceptor in front of the attack and the reputation interceptor, with
\* the attack running.
NextInterceptor ==
    \/ CallInterceptHtlc(InterceptRequests)
    \/ CallNotifyResolution
    \/ BuildReputation
    \/ JamChannel
    \/ SendToRoute
    \/ Sleep
    \/ CheckReputation

SpecInterceptor == Init /\ [][NextInterceptor]_vars

\* The attack, the HTLCs it receives and the shutdown of the simulation.
NextSlowJam ==
    \/ SlowJamStep
    \/ TriggerShutdown
    \/ CallInterceptHtlc(AttackerReceives)
    \/ CallNotifyResolution

SpecSlowJam == Init /\ [][NextSlowJam]_vars /\ WF_vars(SlowJamStep)

\* ------------------------------------------------------------------- claims

\* The candidates whose slot map holds slot i with value true.
HeldBy(i) ==
    {c \in DOMAIN candidate_slots :
        i \in DOMAIN candidate_slots[c] /\ candidate_slots[c][i]}

\* max(1, ceil(amount_msat / slot_size_msat)): the least n >= 1 with
\* n * slot_size_msat >= amount_msat.
CeilSlots(amount_msat) ==
    CHOOSE n \in 1..(amount_msat + 1) :
        /\ n * slot_size_msat >= amount_msat
        /\ n = 1 \/ (n - 1) * slot_size_msat < amount_msat

\* The number of slots the map of candidate c holds as occupied (none without a map).
HeldCount(cs, c) == IF c \in DOMAIN cs THEN Cardinality(Occupied(cs[c])) ELSE 0

\* The slots assigned to candidate c (none without a map).
Assigned(cs, c) == IF c \in DOMAIN cs THEN DOMAIN cs[c] ELSE {}

\* C1 (P1, slot consistency): after any sequence of add_htlc and remove_htlc
\* calls, for every slot index i, htlc_slots[i] is true iff at least one
\* candidate's slot map holds key i with value true.
C1_SlotConsistency ==
    \A i \in DOMAIN htlc_slots : htlc_slots[i] <=> HeldBy(i) # {}

\* C1's case: two candidates whose slot sets overlap, one holding slots, after a
\* remove_htlc of the other freed slots.
C1_Witness ==
    /\ last.op = "remove_htlc" /\ last.res = "Ok"
    /\ \E c \in DOMAIN candidate_slots \ {last.scid} :
         /\ Occupied(candidate_slots[c]) # {}
         /\ DOMAIN candidate_slots[c] \cap DOMAIN candidate_slots[last.scid] # {}

\* C2: add_htlc(candidate, amount) returns true iff the number of the
\* candidate's assigned slots that are globally free is at least
\* required = max(1, ceil(amount / slot_size_msat)); when it returns true,
\* exactly `required` previously free slots of that candidate become occupied,
\* both in htlc_slots and in the candidate's map, and no other slot changes.
C2_AddHtlc ==
    [][last'.op = "add_htlc" =>
        LET c        == last'.scid
            required == CeilSlots(last'.amt)
            assigned == Assigned(candidate_slots', c)
            free     == {i \in assigned : ~htlc_slots[i]}
            changed  == {i \in DOMAIN htlc_slots : htlc_slots'[i] # htlc_slots[i]}
        IN  /\ (last'.res = "OkTrue") <=> (Cardinality(free) >= required)
            /\ DOMAIN htlc_slots' = DOMAIN htlc_slots
            /\ last'.res = "OkTrue" =>
                  /\ Cardinality(changed) = required
                  /\ changed \subseteq free
                  /\ \A i \in changed :
                        /\ htlc_slots'[i]
                        /\ candidate_slots'[c][i]
                        /\ c \in DOMAIN candidate_slots => ~candidate_slots[c][i]
                  /\ \A i \in assigned \ changed :
                        candidate_slots'[c][i] =
                            (c \in DOMAIN candidate_slots /\ candidate_slots[c][i])
                  /\ \A d \in DOMAIN candidate_slots' \ {c} :
                        d \in DOMAIN candidate_slots
                        /\ candidate_slots'[d] = candidate_slots[d]
    ]_vars

\* C2's case: an amount of 2.5 slots was admitted next to an HTLC the candidate
\* already held, and took 3 slots.
C2_Witness ==
    /\ last.op = "add_htlc" /\ last.res = "OkTrue"
    /\ last.amt = 5 /\ slot_size_msat = 2
    /\ last.pre_cand > 0
    /\ HeldCount(candidate_slots, last.scid) = last.pre_cand + 3

\* What a remove_htlc step does for a candidate holding `held` occupied slots:
\* ErrBucketTooEmpty below `required`, else exactly `required` of the candidate's
\* occupied slots freed, in htlc_slots and in the candidate's map.
RemoveHtlcEffect(c, held, required) ==
    LET freed == {i \in DOMAIN htlc_slots : htlc_slots[i] /\ ~htlc_slots'[i]}
    IN  IF held < required
        THEN last'.res = "ErrBucketTooEmpty"
        ELSE /\ last'.res = "Ok"
             /\ c \in DOMAIN candidate_slots /\ c \in DOMAIN candidate_slots'
             /\ Cardinality(freed) = required
             /\ freed \subseteq Occupied(candidate_slots[c])
             /\ Occupied(candidate_slots'[c]) = Occupied(candidate_slots[c]) \ freed
             /\ \A i \in DOMAIN htlc_slots \ freed : htlc_slots'[i] = htlc_slots[i]

\* C3 as stated: remove_htlc(candidate, amount) fails with ErrBucketTooEmpty
\* when the candidate currently holds fewer than required =
\* max(1, ceil(amount / slot_size_msat)) occupied slots; otherwise it frees
\* exactly `required` of the candidate's occupied slots, clearing both the
\* global bit and the per-candidate bit of each.
C3_Original ==
    [][last'.op = "remove_htlc" =>
        RemoveHtlcEffect(last'.scid, HeldCount(candidate_slots, last'.scid),
                         CeilSlots(last'.amt))
    ]_vars

\* C3 as amended: the above for a candidate that has a slot map; for a candidate
\* without one, remove_htlc fails with ErrChannelNotFound and changes no slot.
C3_RemoveHtlc ==
    [][last'.op = "remove_htlc" =>
        IF last'.scid \in DOMAIN candidate_slots
        THEN RemoveHtlcEffect(last'.scid, HeldCount(candidate_slots, last'.scid),
                              CeilSlots(last'.amt))
        ELSE /\ last'.res = "ErrChannelNotFound"
             /\ htlc_slots' = htlc_slots /\ candidate_slots' = candidate_slots
    ]_vars

\* C3's case: all HTLCs of a candidate were removed and a further remove_htlc
\* failed with ErrBucketTooEmpty.
C3_Witness ==
    /\ last.op = "remove_htlc" /\ last.res = "ErrBucketTooEmpty"
    /\ last.scid \in DOMAIN candidate_slots
    /\ last.pre_cand = 0

\* C4: in every reachable state a candidate occupies at most ASSIGNED_SLOTS = 5
\* slots; once its 5 assigned slots are occupied every further add_htlc for it
\* returns Ok(false), whatever the amount; and an amount greater than
\* 5 * slot_size_msat is never admitted.
C4_SlotCap ==
    /\ \A c \in DOMAIN candidate_slots :
         Cardinality(Occupied(candidate_slots[c])) <= ASSIGNED_SLOTS
    /\ last.op = "add_htlc" /\ last.pre_cand = ASSIGNED_SLOTS => last.res = "OkFalse"
    /\ last.op = "add_htlc" /\ last.amt > ASSIGNED_SLOTS * slot_size_msat =>
         last.res # "OkTrue"

\* C4's case: a candidate holding all of its 5 slots was refused one more HTLC.
C4_Witness ==
    /\ last.op = "add_htlc" /\ last.res = "OkFalse"
    /\ last.pre_cand = ASSIGNED_SLOTS
    /\ last.amt <= slot_size_msat

C6_NoSelfAssignment ==
    /\ scid \notin DOMAIN candidate_slots
    /\ last.scid = scid
          /\ last.op \in {"get_candidate_slots", "may_add_htlc", "add_htlc"}
       => last.res = "ErrUnrecoverable"

\* C6's case: add_htlc was called with the bucket's own scid on a bucket that
\* has candidates holding slots.
C6_Witness ==
    /\ last.op = "add_htlc" /\ last.scid = scid /\ last.res = "ErrUnrecoverable"
    /\ \E c \in DOMAIN candidate_slots : Occupied(candidate_slots[c]) # {}

\* C7: no assertion in add_htlc or remove_htlc fails, and no error is raised, in
\* any sequence of successful adds and matching removes over candidates whose
\* assigned slot sets share indices: a slot that is reserved has its global bit
\* and the candidate's bit false beforehand, a slot that is freed has both true
\* (the assert! of the two loops, whose failure is the result "Panic").
C7_NoAssertionFails ==
    /\ last.res # "Panic"
    /\ last.op = "remove_htlc" => last.res = "Ok"
    /\ last.op = "add_htlc" =>
         last.res \in {"OkTrue", "OkFalse", "ErrUnrecoverable"}
    /\ last.op = "add_htlc" /\ last.res = "ErrUnrecoverable" =>
         last.scid \notin DOMAIN candidate_slots

\* C7's case: two candidates sharing slots each added an HTLC of 2.5 slots, and
\* after the matching removes (the last one on candidate 2) nothing is in flight.
C7_Witness ==
    /\ last.op = "remove_htlc" /\ last.res = "Ok" /\ last.scid = 2 /\ last.amt = 5
    /\ DOMAIN candidate_slots = Candidates
    /\ DOMAIN candidate_slots[2] \cap DOMAIN candidate_slots[3] # {}
    /\ \A c \in Scids, a \in Amounts : in_flight[c][a] = 0
    /\ \A i \in DOMAIN htlc_slots : ~htlc_slots[i]

\* C8: after a successful add_htlc followed by the removal of the same HTLC
\* (same candidate, same amount), the number of occupied slots of the bucket and
\* of that candidate equal their values before the add, and an HTLC of the
\* same amount is admitted again (enough of the candidate's slots are free).
C8_AddRemoveConservation ==
    [][(/\ last.op = "add_htlc" /\ last.res = "OkTrue"
        /\ last'.op = "remove_htlc"
        /\ last'.scid = last.scid /\ last'.amt = last.amt)
       => /\ last'.res = "Ok"
          /\ Cardinality(Occupied(htlc_slots')) = last.pre_global
          /\ HeldCount(candidate_slots', last.scid) = last.pre_cand
          /\ Cardinality({i \in Assigned(candidate_slots', last.scid) : ~htlc_slots'[i]})
                >= CeilSlots(last.amt)
    ]_vars

\* C8's case: an HTLC taking all 5 slots of a candidate was added and removed.
C8_Witness ==
    /\ last.op = "remove_htlc" /\ last.res = "Ok"
    /\ last.amt = ASSIGNED_SLOTS * slot_size_msat
    /\ last.pre_cand = ASSIGNED_SLOTS
    /\ HeldCount(candidate_slots, last.scid) = 0
    /\ in_flight[last.scid][last.amt] = 0

\* C9: remove_channel(candidate) deletes the candidate's slot map entirely
\* (returning true iff an entry existed) and leaves the slots the candidate held
\* occupied in htlc_slots; those slots remain occupied until the HTLCs governing
\* them are individually resolved, at which point they become free again: the
\* matching remove_htlc of an HTLC in flight succeeds and frees its slots.
C9_SlotsFreedOnResolve ==
    [][/\ last'.op = "remove_channel" =>
            /\ last'.scid \notin DOMAIN candidate_slots'
            /\ (last'.res = "OkTrue") <=> (last'.scid \in DOMAIN candidate_slots)
            /\ htlc_slots' = htlc_slots
       /\ last'.op = "remove_htlc" =>
            /\ last'.res = "Ok"
            /\ Cardinality(Occupied(htlc_slots')) =
                   Cardinality(Occupied(htlc_slots)) - CeilSlots(last'.amt)
    ]_vars

\* C10 (IG1): in every reachable state, over all operations of the bucket
\* (remove_channel and re-referencing a removed candidate included),
\* htlc_slots[i] = true iff some candidate SCID currently in candidate_slots
\* has key i with value true.
C10_GlobalIffCandidate ==
    \A i \in DOMAIN htlc_slots :
        htlc_slots[i] =
            (\E c \in DOMAIN candidate_slots :
                i \in DOMAIN candidate_slots[c] /\ candidate_slots[c][i])

\* C11: once general_jam_channel has been called (params are 0 / 0), every
\* may_add_htlc and add_htlc on the bucket is refused and occupies no slot: the
\* call does not return Ok(true) and the number of occupied slots is what it
\* was before the call.
C11_JamBlocksAdmission ==
    (params.slot_count = 0 /\ last.op \in {"may_add_htlc", "add_htlc"})
        => /\ last.res # "OkTrue"
           /\ Cardinality(Occupied(htlc_slots)) = last.pre_global

\* C12: the bucket's slot_count is in 1..483, and slot_size_msat is
\* liquidity_msat / slot_count of the current params, is positive, and htlc_slots
\* has slot_count entries.
C12_BucketParameters ==
    /\ params.slot_count \in 1..483
    /\ slot_size_msat = params.liquidity_msat \div params.slot_count
    /\ slot_size_msat > 0
    /\ Cardinality(DOMAIN htlc_slots) = params.slot_count

\* What the decision of the last call was taken on: whether the scheme finds the
\* reputation sufficient, whether the general bucket has room for the amount and
\* whether congestion resources are available for it.
Sufficient == Reputation_sufficient_reputation(outcome.scheme, check)
GeneralHasRoom == resources_available(check.resource_check.general_bucket, outcome.amt)
CongestionAvailable == congestion_resources_available(check, outcome.amt)

\* The conditions of the rows 1..9 of the decision table, on the last call.
TableRow(i) ==
    LET e == outcome.endorsed = "Endorsed" IN
    CASE i = 1 -> e /\ ~outcome.upgradable
      [] i = 2 -> e /\ Sufficient
      [] i = 3 -> e /\ ~Sufficient /\ CongestionAvailable
      [] i = 4 -> e /\ ~Sufficient /\ ~CongestionAvailable
                    /\ outcome.scheme = "Incoming" /\ GeneralHasRoom
      [] i = 5 -> e /\ ~Sufficient /\ ~CongestionAvailable
                    /\ outcome.scheme \in {"Outgoing", "Bidirectional"}
      [] i = 6 -> e /\ ~Sufficient /\ ~CongestionAvailable
                    /\ outcome.scheme = "Incoming" /\ ~GeneralHasRoom
      [] i = 7 -> ~e /\ outcome.upgradable /\ Sufficient
      [] i = 8 -> ~e /\ GeneralHasRoom
      [] i = 9 -> ~e /\ ~GeneralHasRoom

\* The results of the rows 1..9, as the bucket or the failure reason.
TableResult(i) ==
    CASE i = 1 -> <<"Err", "UpgradableSignalModified">>
      [] i = 2 -> <<"Ok", "Protected">>
      [] i = 3 -> <<"Ok", "Congestion">>
      [] i = 4 -> <<"Ok", "General">>
      [] i = 5 -> <<"Err", "NoReputation">>
      [] i = 6 -> <<"Err", "NoResources">>
      [] i = 7 -> <<"Ok", "Protected">>
      [] i = 8 -> <<"Ok", "General">>
      [] i = 9 -> <<"Err", "NoResources">>

\* C13: inner_forwarding_outcome returns the result of the first row of the
\* decision table whose condition holds, and some row's condition always holds.
C13_DecisionTable ==
    outcome.op = "inner_forwarding_outcome" =>
        LET matching == {i \in 1..9 : TableRow(i)} IN
        /\ matching # {}
        /\ outcome.res = TableResult(CHOOSE i \in matching : \A j \in matching : i <= j)

\* An endorsed htlc without reputation went to the general bucket under the
\* Incoming scheme (row 4).
C13_Witness ==
    /\ outcome.op = "inner_forwarding_outcome"
    /\ outcome.endorsed = "Endorsed" /\ outcome.scheme = "Incoming"
    /\ ~Sufficient /\ ~CongestionAvailable /\ GeneralHasRoom
    /\ outcome.res = <<"Ok", "General">>

\* C14: an htlc that arrives Endorsed and not upgradable fails with
\* UpgradableSignalModified, whatever the snapshot, the amount and the scheme.
C14_SignalModified ==
    (outcome.op \in {"inner_forwarding_outcome", "forwarding_outcome"}
       /\ outcome.endorsed = "Endorsed" /\ ~outcome.upgradable)
        => outcome.res = <<IF outcome.op = "forwarding_outcome" THEN "Fail" ELSE "Err",
                           "UpgradableSignalModified">>

\* The failure of an endorsed, non-upgradable htlc whose reputation is sufficient
\* and whose general bucket has room.
C14_Witness ==
    /\ outcome.op = "forwarding_outcome"
    /\ outcome.endorsed = "Endorsed" /\ ~outcome.upgradable
    /\ Sufficient /\ GeneralHasRoom
    /\ outcome.res = <<"Fail", "UpgradableSignalModified">>

\* C15: an Endorsed, upgradable htlc without sufficient reputation gets the
\* congestion bucket when congestion resources are available; when they are not
\* it fails with NoReputation under Outgoing and Bidirectional, and under
\* Incoming it gets General if the general bucket has room and fails with
\* NoResources if not.
C15_EndorsedNoReputation ==
    (outcome.op = "inner_forwarding_outcome"
       /\ outcome.endorsed = "Endorsed" /\ outcome.upgradable /\ ~Sufficient)
        => outcome.res =
              IF CongestionAvailable THEN <<"Ok", "Congestion">>
              ELSE IF outcome.scheme \in {"Outgoing", "Bidirectional"}
              THEN <<"Err", "NoReputation">>
              ELSE IF GeneralHasRoom THEN <<"Ok", "General">>
              ELSE <<"Err", "NoResources">>

\* The NoReputation failure under the Outgoing scheme with room in the general
\* bucket.
C15_Witness ==
    /\ outcome.op = "inner_forwarding_outcome"
    /\ outcome.endorsed = "Endorsed" /\ outcome.upgradable /\ ~Sufficient
    /\ outcome.scheme = "Outgoing" /\ GeneralHasRoom /\ ~CongestionAvailable
    /\ outcome.res = <<"Err", "NoReputation">>

\* C16: an Unendorsed htlc gets Protected iff it is upgradable and reputation is
\* sufficient; otherwise General if the general bucket has room and NoResources
\* if not; it never gets the congestion bucket.
C16_Unendorsed ==
    (outcome.op = "inner_forwarding_outcome" /\ outcome.endorsed = "Unendorsed")
        => /\ (outcome.res = <<"Ok", "Protected">>) <=> (outcome.upgradable /\ Sufficient)
           /\ ~(outcome.upgradable /\ Sufficient)
                 => outcome.res = IF GeneralHasRoom THEN <<"Ok", "General">>
                                  ELSE <<"Err", "NoResources">>
           /\ outcome.res # <<"Ok", "Congestion">>

\* An unendorsed, non-upgradable htlc with sufficient reputation went to General.
C16_Witness ==
    /\ outcome.op = "inner_forwarding_outcome" /\ outcome.endorsed = "Unendorsed"
    /\ ~outcome.upgradable /\ Sufficient
    /\ outcome.res = <<"Ok", "General">>

\* The sides of the snapshot a scheme asks about.
RequiredSides(scheme) ==
    CASE scheme = "Incoming"      -> {check.reputation_check.incoming_reputation}
      [] scheme = "Outgoing"      -> {check.reputation_check.outgoing_reputation}
      [] scheme = "Bidirectional" -> {check.reputation_check.incoming_reputation,
                                      check.reputation_check.outgoing_reputation}

\* Exactly one of the two sides of the snapshot has sufficient reputation.
OneSideSufficient ==
    sufficient_reputation(check.reputation_check.incoming_reputation)
        # sufficient_reputation(check.reputation_check.outgoing_reputation)

\* C17: the scheme finds the reputation sufficient iff every side it asks about
\* passes the predicate (Incoming: the incoming side, Outgoing: the outgoing
\* side, Bidirectional: both); under Bidirectional an Endorsed htlc with only one
\* sufficient side does not get Protected, and fails with NoReputation when no
\* congestion resources are available.
C17_SchemeSides ==
    /\ outcome.op = "Reputation::sufficient_reputation" =>
           (outcome.res <=> \A v \in RequiredSides(outcome.scheme) : sufficient_reputation(v))
    /\ (outcome.op = "inner_forwarding_outcome" /\ outcome.scheme = "Bidirectional"
           /\ outcome.endorsed = "Endorsed" /\ OneSideSufficient)
          => /\ outcome.res # <<"Ok", "Protected">>
             /\ (outcome.upgradable /\ ~CongestionAvailable)
                   => outcome.res = <<"Err", "NoReputation">>

\* An endorsed htlc under Bidirectional, only the incoming side sufficient, no
\* congestion resources: NoReputation.
C17_Witness ==
    /\ outcome.op = "inner_forwarding_outcome" /\ outcome.scheme = "Bidirectional"
    /\ outcome.endorsed = "Endorsed" /\ outcome.upgradable
    /\ sufficient_reputation(check.reputation_check.incoming_reputation)
    /\ ~sufficient_reputation(check.reputation_check.outgoing_reputation)
    /\ ~CongestionAvailable
    /\ outcome.res = <<"Err", "NoReputation">>

\* The bucket or failure reason behind the last forwarding_outcome.
InnerOfLast ==
    inner_forwarding_outcome(check, outcome.amt, outcome.endorsed, outcome.upgradable,
                             outcome.scheme)

\* C18: forwarding_outcome is Forward(Endorsed) iff the htlc is assigned
\* Protected, Forward(Unendorsed) for General and Congestion, and Fail(reason)
\* with the reason of the inner decision.
C18_ForwardSignal ==
    outcome.op = "forwarding_outcome" =>
        /\ (outcome.res = <<"Forward", "Endorsed">>) <=> (InnerOfLast = <<"Ok", "Protected">>)
        /\ InnerOfLast \in {<<"Ok", "General">>, <<"Ok", "Congestion">>}
              => outcome.res = <<"Forward", "Unendorsed">>
        /\ \A reason \in FailureReason :
              (InnerOfLast = <<"Err", reason>>) <=> (outcome.res = <<"Fail", reason>>)

\* An htlc that arrived Endorsed is forwarded Unendorsed out of the congestion
\* bucket.
C18_Witness ==
    /\ outcome.op = "forwarding_outcome" /\ outcome.endorsed = "Endorsed"
    /\ InnerOfLast = <<"Ok", "Congestion">>
    /\ outcome.res = <<"Forward", "Unendorsed">>

\* reputation - in_flight_total_risk - htlc_risk of v in unbounded integers, each
\* risk clamped to i64::MAX and each difference kept at or above i64::MIN.
ClampedRemainder(v) ==
    LET risk(u) == IF u <= I64_MAX THEN u ELSE I64_MAX
        floor(x) == IF x >= I64_MIN THEN x ELSE I64_MIN
    IN  floor(floor(v.reputation - risk(v.in_flight_total_risk)) - risk(v.htlc_risk))

\* C19: sufficient_reputation is true iff the clamped, saturating remainder is
\* strictly above revenue_threshold, and no larger in_flight_total_risk or
\* htlc_risk makes an insufficient reputation sufficient.
C19_SufficientReputation ==
    outcome.op = "sufficient_reputation" =>
        LET v == check.reputation_check.incoming_reputation IN
        /\ outcome.res <=> (ClampedRemainder(v) > v.revenue_threshold)
        /\ \A f \in v.in_flight_total_risk..U64_MAX, h \in v.htlc_risk..U64_MAX :
              sufficient_reputation(ReputationValues(v.reputation, v.revenue_threshold, f, h))
                  => outcome.res

\* A risk above i64::MAX is clamped, and a remainder equal to the threshold is
\* insufficient.
C19_Witness ==
    /\ outcome.op = "sufficient_reputation"
    /\ LET v == check.reputation_check.incoming_reputation IN
         /\ v.in_flight_total_risk > I64_MAX
         /\ ClampedRemainder(v) = v.revenue_threshold
         /\ v.reputation - v.in_flight_total_risk - v.htlc_risk < I64_MIN
    /\ outcome.res = FALSE

\* C20: congestion_resources_available is false when the congestion bucket has
\* no slots or no liquidity, when the general bucket has room for the amount,
\* when the channel is not congestion eligible, or when the congestion bucket
\* cannot fit the amount (slots all used, or liquidity used plus the amount
\* above its liquidity).
C20_CongestionUnavailable ==
    outcome.op = "congestion_resources_available" =>
        LET congestion_bucket == check.resource_check.congestion_bucket IN
        (\/ congestion_bucket.slots_available = 0
         \/ congestion_bucket.liquidity_available_msat = 0
         \/ GeneralHasRoom
         \/ ~check.congestion_eligible
         \/ congestion_bucket.slots_used >= congestion_bucket.slots_available
         \/ congestion_bucket.liquidity_used_msat + outcome.amt
                > congestion_bucket.liquidity_available_msat)
            => outcome.res = FALSE

\* The refusal for room in the general bucket alone: the congestion bucket is
\* enabled and fits the amount, and the channel is eligible.
C20_Witness ==
    /\ outcome.op = "congestion_resources_available"
    /\ GeneralHasRoom /\ check.congestion_eligible
    /\ resources_available(check.resource_check.congestion_bucket, outcome.amt)
    /\ outcome.res = FALSE

\* A condition that rules congestion resources out for the last call: the
\* congestion bucket disabled, room in the general bucket, the channel not
\* eligible, or the congestion bucket unable to fit the amount.
Disqualified ==
    LET congestion_bucket == check.resource_check.congestion_bucket IN
    \/ congestion_bucket.slots_available = 0
    \/ congestion_bucket.liquidity_available_msat = 0
    \/ GeneralHasRoom
    \/ ~check.congestion_eligible
    \/ congestion_bucket.slots_used >= congestion_bucket.slots_available
    \/ congestion_bucket.liquidity_used_msat + outcome.amt
           > congestion_bucket.liquidity_available_msat

\* The equal share of the congestion liquidity per slot.
EqualShare ==
    check.resource_check.congestion_bucket.liquidity_available_msat
        \div check.resource_check.congestion_bucket.slots_available

\* C21: when no disqualifying condition holds, congestion_resources_available is
\* true iff the amount is at most the larger of the equal share per slot and
\* 15_000_000 msat.
C21_CongestionLimit ==
    (outcome.op = "congestion_resources_available" /\ ~Disqualified)
        => (outcome.res <=>
               outcome.amt <= (IF EqualShare >= 15000000 THEN EqualShare ELSE 15000000))

\* An amount equal to the floor is admitted where the equal share is below it.
C21_Witness ==
    /\ outcome.op = "congestion_resources_available" /\ ~Disqualified
    /\ EqualShare < 15000000 /\ outcome.amt = 15000000
    /\ outcome.res = TRUE

\* C22: validate rejects a forward whose amount_out_msat or amount_in_msat is
\* above the supply cap with ErrAmountExceedsSupply, before the other rules; then
\* one with amount_out_msat > amount_in_msat with ErrNegativeFee; then one with
\* expiry_in_height < expiry_out_height with ErrNegativeCltvDelta; and the
\* fee_msat of a forward that passed is amount_in_msat - amount_out_msat, without
\* underflow.
C22_Validate ==
    /\ reply.op = "validate" =>
          LET p == reply.forward IN
          reply.res[1] =
              IF p.amount_out_msat > SUPPLY_CAP_MSAT \/ p.amount_in_msat > SUPPLY_CAP_MSAT
              THEN "ErrAmountExceedsSupply"
              ELSE IF p.amount_out_msat > p.amount_in_msat THEN "ErrNegativeFee"
              ELSE IF p.expiry_in_height < p.expiry_out_height THEN "ErrNegativeCltvDelta"
              ELSE "Ok"
    /\ reply.op = "fee_msat" =>
          /\ reply.res = <<"Ok", reply.forward.amount_in_msat
                                   - reply.forward.amount_out_msat>>
          /\ reply.res[2] >= 0

\* A forward above the cap that also has a negative fee and a negative cltv
\* delta is rejected for its amount.
C22_Witness ==
    /\ reply.op = "validate"
    /\ reply.forward.amount_out_msat > SUPPLY_CAP_MSAT
    /\ reply.forward.amount_out_msat > reply.forward.amount_in_msat
    /\ reply.forward.expiry_in_height < reply.forward.expiry_out_height
    /\ reply.res[1] = "ErrAmountExceedsSupply"

\* The step is a call of the manager operation op.
ManagerCall(op) == reply'.op = op /\ vars' # vars

\* C23: add_htlc for a key (outgoing scid, incoming HtlcRef) that is in flight
\* returns ErrDuplicateHtlc and leaves the in-flight records and the slot
\* occupancy as they were; no two in-flight records ever have the same key.
\* (The forward is one that passes validate, as a replayed forward does.)
C23_NoDuplicate ==
    [][/\ ( /\ ManagerCall("add_htlc")
            /\ validate(reply'.forward) = <<"Ok">>
            /\ Live(htlcs, ForwardKey(reply'.forward)) # {} )
          => /\ reply'.res = <<"ErrDuplicateHtlc", reply'.forward.incoming_ref>>
             /\ htlcs' = htlcs
             /\ htlc_slots' = htlc_slots
             /\ candidate_slots' = candidate_slots
       /\ \A i \in DOMAIN htlcs' : Live(htlcs', KeyOf(htlcs'[i])) = {i}]_vars

\* A duplicate was rejected while two HTLCs were in flight.
C23_Witness ==
    /\ reply.op = "add_htlc"
    /\ reply.res[1] = "ErrDuplicateHtlc"
    /\ Len(htlcs) = 2
    /\ Occupied(htlc_slots) # {}

\* C24: an admitted HTLC stays in flight until resolve_htlc is called for it,
\* and is resolved at most once: a record leaves htlcs only in a resolve_htlc
\* call for its key that returns Ok, and then no record with the key is left;
\* resolve_htlc for a key with no in-flight record (never added, or already
\* resolved) returns ErrForwardNotFound and changes no state.
C24_ResolveOnce ==
    [][/\ \A r \in {htlcs[i] : i \in DOMAIN htlcs} \ {htlcs'[i] : i \in DOMAIN htlcs'} :
             /\ ManagerCall("resolve_htlc")
             /\ reply'.res = <<"Ok">>
             /\ KeyOf(reply'.forward) = KeyOf(r)
             /\ Live(htlcs', KeyOf(r)) = {}
       /\ ( /\ reply'.op = "resolve_htlc"
            /\ reply' # reply
            /\ Live(htlcs, KeyOf(reply'.forward)) = {} )
          => /\ reply'.res = <<"ErrForwardNotFound">>
             /\ UNCHANGED <<htlcs, channels, bucket_vars>>
       /\ ( /\ ManagerCall("resolve_htlc")
            /\ Live(htlcs, KeyOf(reply'.forward)) # {} )
          => /\ reply'.res = <<"Ok">>
             /\ Len(htlcs') = Len(htlcs) - 1]_vars

\* resolve_htlc was refused for a key that had been added and resolved, while
\* another HTLC was in flight.
C24_Witness ==
    /\ reply.op = "resolve_htlc"
    /\ reply.res = <<"ErrForwardNotFound">>
    /\ reply.forward.outgoing_channel_id = SnapshotChannel
    /\ channels[SnapshotChannel].revenue.value > 0
    /\ Len(htlcs) = 1

\* The slots occupied per candidate.
OccupiedBy(cs) == [c \in Candidates |-> IF c \in DOMAIN cs THEN Occupied(cs[c]) ELSE {}]

\* The forwarding outcome of the AllocationCheck that add_htlc returned for p.
OutcomeOf(c, p) ==
    forwarding_outcome(c, p.amount_out_msat, p.incoming_endorsed,
                       p.upgradable_endorsement, REPUTATION_SCHEME)

\* C25: add_htlc records the HTLC as in flight and reserves resources iff the
\* forwarding outcome of the AllocationCheck it returns is Forward; when the
\* outcome is Fail the call still returns the AllocationCheck, and the
\* in-flight HTLCs, the slot occupancy and the in-flight risk are unchanged.
C25_AdmitIffForward ==
    [][( /\ ManagerCall("add_htlc")
         /\ reply'.res[1] = "Ok" )
       => LET p == reply'.forward
              o == p.outgoing_channel_id
              result == OutcomeOf(reply'.res[2], p)
          IN  IF result[1] = "Forward"
              THEN /\ Len(htlcs') = Len(htlcs) + 1
                   /\ Live(htlcs', ForwardKey(p)) = {Len(htlcs')}
                   /\ \/ /\ htlcs'[Len(htlcs')].bucket = "General"
                         /\ Cardinality(Occupied(htlc_slots')) =
                                Cardinality(Occupied(htlc_slots))
                                    + CeilSlots(p.amount_out_msat)
                         /\ channels'[o].in_flight_total_risk =
                                channels[o].in_flight_total_risk
                      \/ /\ htlcs'[Len(htlcs')].bucket = "Protected"
                         /\ channels'[o].in_flight_total_risk =
                                channels[o].in_flight_total_risk + htlc_risk_of(p)
                         /\ htlc_slots' = htlc_slots
                      \/ /\ htlcs'[Len(htlcs')].bucket = "Congestion"
                         /\ htlc_slots' = htlc_slots
                         /\ channels'[o].in_flight_total_risk =
                                channels[o].in_flight_total_risk
              ELSE /\ result[1] = "Fail"
                   /\ result[2] \in {"NoResources", "NoReputation",
                                      "UpgradableSignalModified"}
                   /\ htlcs' = htlcs
                   /\ htlc_slots' = htlc_slots
                   /\ OccupiedBy(candidate_slots') = OccupiedBy(candidate_slots)
                   /\ channels'[o].in_flight_total_risk =
                          channels[o].in_flight_total_risk]_vars

\* add_htlc returned an AllocationCheck whose outcome is Fail(NoResources) while
\* an HTLC was in flight and held slots.
C25_Witness ==
    /\ reply.op = "add_htlc"
    /\ reply.res[1] = "Ok"
    /\ OutcomeOf(reply.res[2], reply.forward) = <<"Fail", "NoResources">>
    /\ Len(htlcs) = 1
    /\ Occupied(htlc_slots) # {}

\* The in-flight record that resolve_htlc resolves for the key.
RecordOf(key) == htlcs[CHOOSE i \in Live(htlcs, key) : \A j \in Live(htlcs, key) : i <= j]

\* The value of the average at the instant.
ValueAt(avg, instant) == halved(avg.value, (instant - avg.last_updated) \div avg.window)

\* C27: resolve_htlc of an in-flight HTLC with fee fee_msat and risk htlc_risk:
\* Settled adds fee_msat - htlc_risk to the outgoing_reputation of the outgoing
\* channel and fee_msat to its revenue (each taken at the resolved instant);
\* Failed adds -htlc_risk to outgoing_reputation and leaves revenue unchanged.
C27_ResolveUpdates ==
    [][( /\ ManagerCall("resolve_htlc")
         /\ reply'.res = <<"Ok">> )
       => LET o == reply'.forward.outgoing_channel_id
              r == RecordOf(KeyOf(reply'.forward))
              instant == channels'[o].outgoing_reputation.last_updated
          IN  /\ instant >= channels[o].outgoing_reputation.last_updated
              /\ IF reply'.forward.resolution = "Settled"
                 THEN /\ channels'[o].outgoing_reputation.value =
                            ValueAt(channels[o].outgoing_reputation, instant)
                                + (r.fee_msat - r.htlc_risk)
                      /\ channels'[o].revenue.last_updated = instant
                      /\ channels'[o].revenue.value =
                            ValueAt(channels[o].revenue, instant) + r.fee_msat
                 ELSE /\ channels'[o].outgoing_reputation.value =
                            ValueAt(channels[o].outgoing_reputation, instant)
                                - r.htlc_risk
                      /\ channels'[o].revenue = channels[o].revenue
              /\ \A c \in Candidates \ {o} : channels'[c] = channels[c]]_vars

\* An HTLC whose risk is above its fee was settled at the instant MaxInstant, on
\* a channel whose revenue then is above one fee.
C27_Witness ==
    /\ reply.op = "resolve_htlc"
    /\ reply.res = <<"Ok">>
    /\ reply.forward.resolution = "Settled"
    /\ reply.forward.incoming_ref.htlc_index = 1
    /\ channels[SnapshotChannel].outgoing_reputation.last_updated = MaxInstant
    /\ channels[SnapshotChannel].revenue.value > ForwardFee

\* The positions of the records in flight on the outgoing channel o that were
\* admitted to the protected bucket.
ProtectedOn(o) ==
    {i \in DOMAIN htlcs : htlcs[i].outgoing_channel_id = o /\ htlcs[i].bucket = "Protected"}

\* C28: the in_flight_total_risk of an outgoing channel is the sum of htlc_risk
\* over the HTLCs in flight on it that were admitted to the protected bucket,
\* and so is zero when none of them is in flight.
C28_InFlightRisk ==
    \A o \in Candidates :
        /\ channels[o].in_flight_total_risk = SumOver(htlcs, ProtectedOn(o), "htlc_risk")
        /\ ProtectedOn(o) = {} => channels[o].in_flight_total_risk = 0

\* Two protected HTLCs with different risks are in flight on the channel.
C28_Witness ==
    /\ Cardinality(ProtectedOn(SnapshotChannel)) = 2
    /\ channels[SnapshotChannel].in_flight_total_risk =
           opportunity_cost(ForwardFee, ForwardDelta[1])
               + opportunity_cost(ForwardFee, ForwardDelta[2])

\* The slots that the general-bucket records of the candidate c need.
RECURSIVE RequiredBy(_, _)
RequiredBy(records, c) ==
    IF records = << >> THEN 0
    ELSE (IF Head(records).outgoing_channel_id = c /\ Head(records).bucket = "General"
          THEN required_slot_count(slot_size_msat, Head(records).amount_msat) ELSE 0)
         + RequiredBy(Tail(records), c)

\* The view is a complete state: a slot's global bit is set iff some candidate's
\* bit for it is, and each candidate holds the slots of its recorded HTLCs.
Complete(view) ==
    /\ \A i \in DOMAIN view.hs :
          view.hs[i] <=> \E c \in DOMAIN view.cs : i \in DOMAIN view.cs[c] /\ view.cs[c][i]
    /\ \A c \in Candidates :
          Cardinality(OccupiedBy(view.cs)[c]) = RequiredBy(view.records, c)

\* C26: under concurrent callers the operations are atomic with respect to each
\* other: what a get_forwarding_outcome reads is a complete state (no slot
\* whose global and per-candidate bits disagree, no HTLC recorded without its
\* slots, no slots without their HTLC), and whenever no add_htlc or
\* resolve_htlc is between taking and dropping the mutex, so after add_htlc has
\* returned, the state that the next query reads holds the whole reservation.
C26_Atomic ==
    /\ Complete(local["get_forwarding_outcome"].seen)
    /\ lock \notin {"add_htlc", "resolve_htlc"}
          => Complete([hs |-> htlc_slots, cs |-> candidate_slots, records |-> htlcs])
    /\ \A t \in ManagerTasks : pc[t] # "panic"

\* A query has read the state with the HTLC and its three slots, and now waits
\* for the mutex while resolve_htlc has freed a slot's global bit only.
C26_Witness ==
    /\ Len(local["get_forwarding_outcome"].seen.records) = 1
    /\ Cardinality(Occupied(local["get_forwarding_outcome"].seen.hs)) = 3
    /\ pc["get_forwarding_outcome"] = "lock"
    /\ pc["resolve_htlc"] = "free_candidate"

\* C29: when the tasks sample the simulated clock and then query the shared,
\* mutex-guarded average at the instant they sampled, no query fails with
\* UpdateInPast.
C29_NoUpdateInPast ==
    \A t \in ClockTasks : local[t].res[1] # "ErrUpdateInPast"

\* The record of the type is present with exactly the single byte 0x01.
SingleOne(records, type) == type \in DOMAIN records /\ records[type] = <<1>>

\* C30: accountable_from_records returns Accountable iff record 106823 is
\* present with exactly the single byte 0x01, and Unaccountable otherwise
\* (absent, empty, another byte, a longer value); upgradable_from_records
\* returns true iff record 106825 is present with exactly the single byte 0x01.
C30_WireSignal ==
    /\ reply.op = "accountable_from_records"
          => reply.res[1] = IF SingleOne(reply.forward, 106823)
                            THEN "Accountable" ELSE "Unaccountable"
    /\ reply.op = "upgradable_from_records"
          => reply.res[1] = SingleOne(reply.forward, 106825)

\* Records whose accountable value is longer than one byte and begins with 0x01,
\* next to an upgradable record of 0x01, were decoded as Unaccountable.
C30_Witness ==
    /\ reply.op = "accountable_from_records"
    /\ ACCOUNTABLE_TYPE \in DOMAIN reply.forward
    /\ reply.forward[ACCOUNTABLE_TYPE] = <<1, 0>>
    /\ SingleOne(reply.forward, UPGRADABLE_TYPE)
    /\ reply.res = <<"Unaccountable">>

\* C31: records_from_signal(s) always contains record 106825 = [0x01] and
\* contains record 106823 (as [0x01]) iff s is Accountable, so that decoding
\* gives s back and gives upgradable = true, for both signals.
C31_RoundTrip ==
    reply.op = "records_from_signal"
       => LET s == reply.forward
              records == reply.res[1]
          IN  /\ SingleOne(records, 106825)
              /\ 106823 \in DOMAIN records <=> s = "Accountable"
              /\ SingleOne(records, 106823) <=> s = "Accountable"
              /\ accountable_from_records(records) = s
              /\ upgradable_from_records(records) = TRUE

\* The records of the Unaccountable signal hold the upgradable record only.
C31_Witness ==
    /\ reply.op = "records_from_signal"
    /\ reply.forward = "Unaccountable"
    /\ DOMAIN reply.res[1] = {UPGRADABLE_TYPE}

\* floor(n / d) for d >= 1: the largest q with q * d <= n.
Floor(n, d) == CHOOSE q \in 0..n : q * d <= n /\ n < (q + 1) * d

\* C32: GeneralBucket::new returns ErrUnrecoverable when liquidity_msat /
\* slot_count is zero, and otherwise a bucket with exactly slot_count slots, all
\* free, slot_size_msat = floor(liquidity_msat / slot_count) and no candidate
\* assigned. (slot_count is at least 1, as BucketParameters requires.)
C32_New ==
    (reply.op = "new" /\ reply.forward.slot_count >= 1)
       => LET p == reply.forward
              size == Floor(p.liquidity_msat, p.slot_count)
          IN  IF size = 0
              THEN reply.res = <<"ErrUnrecoverable">>
              ELSE /\ reply.res = <<"Ok">>
                   /\ DOMAIN reply.bucket.htlc_slots = 0..(p.slot_count - 1)
                   /\ \A i \in DOMAIN reply.bucket.htlc_slots : ~reply.bucket.htlc_slots[i]
                   /\ reply.bucket.slot_size_msat = size
                   /\ DOMAIN reply.bucket.candidate_slots = {}
                   /\ reply.bucket.params = p
                   /\ reply.bucket.scid = OwnScid

\* A bucket was created whose liquidity is not a multiple of its slot count.
C32_Witness ==
    /\ reply.op = "new"
    /\ reply.res = <<"Ok">>
    /\ reply.forward.slot_count > 1
    /\ reply.bucket.slot_size_msat * reply.forward.slot_count < reply.forward.liquidity_msat

\* The distinct indices that the ASSIGNED_SLOTS * 2 attempts give the candidate
\* with the salt.
Attempted(salt, cand) ==
    {hash_num(salt, scid, cand, attempt) % Cardinality(DOMAIN htlc_slots) :
        attempt \in 0..(ASSIGNED_SLOTS * 2 - 1)}

\* The step is a call of get_candidate_slots, may_add_htlc or add_htlc for a
\* candidate that has no slot map yet.
FirstReference ==
    /\ vars' # vars
    /\ last'.op \in {"get_candidate_slots", "may_add_htlc", "add_htlc"}
    /\ last'.scid # scid
    /\ last'.scid \notin DOMAIN candidate_slots

\* C33: when the slot assignment of a new candidate cannot obtain 5 distinct
\* indices within ASSIGNED_SLOTS * 2 = 10 attempts (always so for a bucket of
\* fewer than 5 slots), get_candidate_slots, may_add_htlc and add_htlc return
\* ErrUnrecoverable, not false, and memoise no slot map for the candidate;
\* otherwise the candidate gets a map of exactly 5 free slots.
C33_AssignmentFails ==
    [][FirstReference =>
         /\ Cardinality(DOMAIN htlc_slots) < 5 => last'.res = "ErrUnrecoverable"
         /\ (\A salt \in Salts : Cardinality(Attempted(salt, last'.scid)) < 5)
               => last'.res = "ErrUnrecoverable"
         /\ IF last'.res = "ErrUnrecoverable"
            THEN /\ candidate_slots' = candidate_slots
                 /\ htlc_slots' = htlc_slots
                 /\ \E salt \in Salts : Cardinality(Attempted(salt, last'.scid)) < 5
            ELSE /\ last'.scid \in DOMAIN candidate_slots'
                 /\ Cardinality(DOMAIN candidate_slots'[last'.scid]) = 5
                 /\ \E salt \in Salts :
                       DOMAIN candidate_slots'[last'.scid] = Attempted(salt, last'.scid)]_vars

\* add_htlc for a second candidate failed with ErrUnrecoverable on a bucket of
\* more than 5 slots, on which another candidate holds slots.
C33_Witness ==
    /\ last.op = "add_htlc"
    /\ last.res = "ErrUnrecoverable"
    /\ last.scid # scid
    /\ last.scid \notin DOMAIN candidate_slots
    /\ Cardinality(DOMAIN htlc_slots) > 5
    /\ Occupied(htlc_slots) # {}

\* C34: the salt of the slot derivation is per bucket: it is drawn once when the
\* bucket is created and used for every candidate, so that in every state one
\* salt gives the slot maps of all the candidates of the bucket.
C34_SaltPerBucket ==
    \E salt \in Salts :
        \A c \in DOMAIN candidate_slots :
            DOMAIN candidate_slots[c] = Attempted(salt, c)

\* The step is a call of the operation op on the AttackInterceptor.
InterceptorCall(op) ==
    /\ handled'.op = op
    /\ attack_pc' = attack_pc
    /\ vars' # vars

\* C35: intercept_htlc routes by the forwarding node.  A request whose
\* forwarding node is an attacker goes to the attack only
\* (intercept_attacker_htlc with an outgoing channel, intercept_attacker_receive
\* without) and the reputation interceptor's set is untouched; every other
\* request, the target forwarding an HTLC from the attacker's channel included,
\* goes to the reputation interceptor only, whose answer is returned and the
\* attack's jamming_payments are untouched.
C35_Routing ==
    [][InterceptorCall("intercept_htlc") =>
         IF handled'.req.forwarding_node \in AttackerPubkeys
         THEN /\ handled'.by = IF handled'.req.outgoing_channel_id = <<"None">>
                               THEN "intercept_attacker_receive"
                               ELSE "intercept_attacker_htlc"
              /\ monitor' = monitor
         ELSE /\ handled'.by = "reputation_interceptor"
              /\ handled'.res \in InnerResults
              /\ jamming_payments' = jamming_payments
              /\ handled'.res[2] = "Ok" => handled'.req \in monitor']_vars

\* The target forwarded an HTLC that came in over the attacker's channel, with a
\* payment hash of the jamming payments, and the reputation interceptor took it.
C35_Witness ==
    /\ handled.op = "intercept_htlc"
    /\ handled.req.forwarding_node = "target"
    /\ handled.req.incoming_channel = "attacker-target"
    /\ handled.req.payment_hash \in jamming_payments
    /\ handled.by = "reputation_interceptor"
    /\ handled.req \in monitor

\* C36: the reputation interceptor is told of a resolution exactly for the HTLCs
\* it was asked to intercept: the HTLCs it forwarded and has not seen resolved
\* are the held HTLCs whose forwarding node is no attacker; notify_resolution
\* for an attacker's HTLC returns Ok and reaches nobody; for any other HTLC it
\* is delegated, and the HTLC is one the reputation interceptor forwarded.
C36_Notified ==
    /\ [](monitor = {req \in requests : req.forwarding_node \notin AttackerPubkeys})
    /\ [][InterceptorCall("notify_resolution") =>
            IF handled'.req.forwarding_node \in AttackerPubkeys
            THEN /\ handled'.by = "none"
                 /\ handled'.res = <<"Ok">>
                 /\ handled'.req \notin monitor
                 /\ monitor' = monitor
            ELSE /\ handled'.by = "reputation_interceptor"
                 /\ handled'.req \in monitor
                 /\ monitor' = monitor \ {handled'.req}]_vars

\* The resolution of an attacker's HTLC was dropped while the reputation
\* interceptor waits for the resolution of an HTLC it forwarded.
C36_Witness ==
    /\ handled.op = "notify_resolution"
    /\ handled.req.forwarding_node \in AttackerPubkeys
    /\ handled.by = "none"
    /\ monitor # {}

\* C37: the attack listens for the shutdown signal: once the shutdown is
\* triggered, run_custom_actions of SlowJam (the loop of fast_jam_channel
\* included) returns.
C37_Terminates == shutdown ~> attack_pc \in {"done", "failed"}

\* C38 (slot exclusivity): in every reachable state each slot index is marked
\* occupied in the map of at most one candidate, also for the indices assigned
\* to several candidates; and a remove_htlc of a candidate changes no other
\* candidate's map and frees only slots that the candidate alone holds.
C38_SlotExclusive ==
    /\ [](\A i \in DOMAIN htlc_slots : Cardinality(HeldBy(i)) <= 1)
    /\ [][(last'.op = "remove_htlc" /\ vars' # vars) =>
            /\ \A d \in DOMAIN candidate_slots \ {last'.scid} :
                  d \in DOMAIN candidate_slots' /\ candidate_slots'[d] = candidate_slots[d]
            /\ \A i \in DOMAIN htlc_slots :
                  htlc_slots[i] /\ ~htlc_slots'[i] => HeldBy(i) = {last'.scid}]_vars

\* A candidate removed an HTLC while the other candidate holds a slot that is
\* assigned to both, and that slot is still held.
C38_Witness ==
    /\ last.op = "remove_htlc"
    /\ last.res = "Ok"
    /\ \E d \in DOMAIN candidate_slots \ {last.scid} :
          \E i \in Assigned(candidate_slots, last.scid) \cap Assigned(candidate_slots, d) :
              HeldBy(i) = {d} /\ htlc_slots[i]

\* The add_htlc for the candidate and the amount of the last call, issued in
\* the current state, that returns res.
AddWouldReturn(res) ==
    ENABLED (CallAddHtlc({last.scid}, {last.amt}, Salts) /\ last'.res = res)

\* C39: may_add_htlc(candidate, amount) returns true iff add_htlc(candidate,
\* amount) in the same state would return true (the state after may_add_htlc
\* differs from the one before at most by the memoised assignment, so that the
\* add_htlc there is the one with the same salt), and may_add_htlc changes no
\* occupancy bit: it leaves htlc_slots and every existing map as they were and
\* at most adds the map of the candidate, with ASSIGNED_SLOTS unoccupied slots.
C39_MayAddHtlc ==
    /\ [](last.op = "may_add_htlc" =>
            /\ AddWouldReturn(last.res)
            /\ last.res \in {"OkTrue", "OkFalse"} =>
                  \A res \in Results \ {last.res} : ~AddWouldReturn(res))
    /\ [][(last'.op = "may_add_htlc" /\ vars' # vars) =>
            /\ htlc_slots' = htlc_slots
            /\ \A d \in DOMAIN candidate_slots :
                  d \in DOMAIN candidate_slots' /\ candidate_slots'[d] = candidate_slots[d]
            /\ \A d \in DOMAIN candidate_slots' \ DOMAIN candidate_slots :
                  /\ d = last'.scid
                  /\ last'.res \in {"OkTrue", "OkFalse"}
                  /\ Cardinality(DOMAIN candidate_slots'[d]) = ASSIGNED_SLOTS
                  /\ Occupied(candidate_slots'[d]) = {}]_vars

\* may_add_htlc returned false for a candidate seen for the first time, whose
\* fresh map has fewer free slots than the amount needs, while the bucket still
\* has a free slot.
C39_Witness ==
    /\ last.op = "may_add_htlc"
    /\ last.res = "OkFalse"
    /\ last.pre_cand = 0
    /\ last.scid \in DOMAIN candidate_slots
    /\ Occupied(candidate_slots[last.scid]) = {}
    /\ \E i \in DOMAIN candidate_slots[last.scid] : ~htlc_slots[i]
    /\ \E i \in DOMAIN candidate_slots[last.scid] : htlc_slots[i]

\* The slots whose global bit the step changes.
Flipped == {i \in DOMAIN htlc_slots : htlc_slots'[i] # htlc_slots[i]}

\* C40: an operation that does not succeed leaves the slot occupancy untouched:
\* after an add_htlc that returns Ok(false) or an error, and after a remove_htlc
\* that returns ErrBucketTooEmpty or ErrChannelNotFound, htlc_slots and the
\* occupancy bits of every candidate are what they were (a failed add_htlc may
\* have memoised an unoccupied map, a failed remove_htlc changes no map at
\* all); an operation that succeeds flips exactly the slots the amount needs.
C40_FailuresKeepOccupancy ==
    [][(last'.op \in {"add_htlc", "remove_htlc"} /\ vars' # vars) =>
         IF last'.res \in {"OkTrue", "Ok"}
         THEN Cardinality(Flipped) = CeilSlots(last'.amt)
         ELSE /\ last'.res \in {"OkFalse", "ErrUnrecoverable", "ErrBucketTooEmpty",
                                 "ErrChannelNotFound"}
              /\ last'.op = "add_htlc" => last'.res \in {"OkFalse", "ErrUnrecoverable"}
              /\ last'.op = "remove_htlc" =>
                    /\ last'.res \in {"ErrBucketTooEmpty", "ErrChannelNotFound"}
                    /\ candidate_slots' = candidate_slots
                    /\ (last'.res = "ErrChannelNotFound") =
                           (last'.scid \notin DOMAIN candidate_slots)
              /\ htlc_slots' = htlc_slots
              /\ \A d \in DOMAIN candidate_slots :
                    d \in DOMAIN candidate_slots' /\ candidate_slots'[d] = candidate_slots[d]
              /\ \A d \in DOMAIN candidate_slots' \ DOMAIN candidate_slots :
                    Occupied(candidate_slots'[d]) = {}]_vars

\* remove_htlc failed with ErrBucketTooEmpty for a candidate that holds slots,
\* fewer than the amount needs.
C40_Witness ==
    /\ last.op = "remove_htlc"
    /\ last.res = "ErrBucketTooEmpty"
    /\ last.scid \in DOMAIN candidate_slots
    /\ Occupied(candidate_slots[last.scid]) # {}
    /\ Cardinality(Occupied(candidate_slots[last.scid])) < CeilSlots(last.amt)

==========================================================================
